---------------------------- MODULE Spec2Model ----------------------------
(***************************************************************************)
(* K9Guard: challenge issuance (CaptchaGenerator) and verification         *)
(* (K9Guard.validate / CaptchaValidator).                                  *)
(*                                                                         *)
(* Conventions.  A JavaScript string is a sequence of code points (all     *)
(* below 65536, so its .length is the length of the sequence).  A          *)
(* JavaScript number is a record [k, neg, mant, scale]: NaN, +-Infinity,   *)
(* or the finite decimal (-1)^neg * mant / 10^scale in lowest form.  The   *)
(* decimal form is exact for the values that occur here (at most 15        *)
(* significant digits, magnitude in [1e-6, 1e21) or zero).                 *)
(***************************************************************************)
EXTENDS Integers, Sequences, FiniteSets, TLC

(***************************************************************************)
(* Strings                                                                 *)
(***************************************************************************)

\* String.prototype.concat over a sequence of strings (Array.join(''))
RECURSIVE Concat(_)
Concat(ss) ==
  IF ss = <<>> THEN <<>>
  ELSE IF Len(ss) = 1 THEN ss[1]
  ELSE CHOOSE r \in
         { Concat(front) \o Concat(back) :
             front \in {SubSeq(ss, 1, Len(ss) \div 2)},
             back \in {SubSeq(ss, Len(ss) \div 2 + 1, Len(ss))} } : TRUE

\* Array.prototype.join(sep)
RECURSIVE Join(_, _)
Join(ss, sep) ==
  IF ss = <<>> THEN <<>>
  ELSE IF Len(ss) = 1 THEN Head(ss)
  ELSE Head(ss) \o sep \o Join(Tail(ss), sep)

\* ECMAScript WhiteSpace and LineTerminator code points (\s, trim, parseFloat)
WhiteSpace ==
  {9, 10, 11, 12, 13, 32, 160, 5760, 8232, 8233, 8239, 8287, 12288, 65279}
    \cup (8192 .. 8202)

\* String.prototype.trimStart
TrimStart(s) ==
  IF \A i \in 1 .. Len(s) : s[i] \in WhiteSpace THEN <<>>
  ELSE SubSeq(s, CHOOSE i \in 1 .. Len(s) :
                   s[i] \notin WhiteSpace /\ \A j \in 1 .. i - 1 : s[j] \in WhiteSpace,
              Len(s))

\* String.prototype.trimEnd
TrimEnd(s) ==
  IF \A i \in 1 .. Len(s) : s[i] \in WhiteSpace THEN <<>>
  ELSE SubSeq(s, 1, CHOOSE i \in 1 .. Len(s) :
                      s[i] \notin WhiteSpace /\ \A j \in i + 1 .. Len(s) : s[j] \in WhiteSpace)

\* String.prototype.trim
Trim(s) == TrimEnd(TrimStart(s))

\* TextEncoder.encode: UTF-8 bytes of one code point of the basic plane
Utf8Char(c) ==
  IF c < 128 THEN <<c>>
  ELSE IF c < 2048 THEN <<192 + (c \div 64), 128 + (c % 64)>>
  ELSE <<224 + (c \div 4096), 128 + ((c \div 64) % 64), 128 + (c % 64)>>

\* TextEncoder.encode of a string
RECURSIVE Utf8(_)
Utf8(s) ==
  IF s = <<>> THEN <<>>
  ELSE IF Len(s) = 1 THEN Utf8Char(s[1])
  ELSE Utf8(SubSeq(s, 1, Len(s) \div 2)) \o Utf8(SubSeq(s, Len(s) \div 2 + 1, Len(s)))

\* one hexadecimal digit, lower case (Number.prototype.toString(16))
HexDigit(n) == IF n < 10 THEN 48 + n ELSE 87 + n

\* bytes.map(b => b.toString(16).padStart(2, '0')).join('')
RECURSIVE ToHex(_)
ToHex(bytes) ==
  IF bytes = <<>> THEN <<>>
  ELSE <<HexDigit(Head(bytes) \div 16), HexDigit(Head(bytes) % 16)>>
         \o ToHex(Tail(bytes))

(***************************************************************************)
(* Numbers                                                                 *)
(***************************************************************************)

NaN == [k |-> "nan", neg |-> FALSE, mant |-> 0, scale |-> 0]

Infinity(neg) == [k |-> "inf", neg |-> neg, mant |-> 0, scale |-> 0]

RECURSIVE Pow10(_)
Pow10(n) == IF n = 0 THEN 1 ELSE 10 * Pow10(n - 1)

\* the finite number (-1)^neg * mant / 10^scale, in lowest form
RECURSIVE Finite(_, _, _)
Finite(neg, mant, scale) ==
  IF scale > 0 /\ mant % 10 = 0 THEN Finite(neg, mant \div 10, scale - 1)
  ELSE [k |-> "fin", neg |-> neg, mant |-> mant, scale |-> scale]

\* an integer as a number
IntNum(n) == IF n < 0 THEN Finite(TRUE, -n, 0) ELSE Finite(FALSE, n, 0)

\* isNaN(x)
isNaN(x) == x.k = "nan"

\* isFinite(x)
isFinite(x) == x.k = "fin"

\* decimal digits of a natural number
RECURSIVE Digits(_)
Digits(n) ==
  IF n < 10 THEN <<48 + n>> ELSE Digits(n \div 10) \o <<48 + (n % 10)>>

\* the digits of n, left-padded with '0' to width w
RECURSIVE PadDigits(_, _)
PadDigits(n, w) ==
  IF w = 0 THEN <<>> ELSE PadDigits(n \div 10, w - 1) \o <<48 + (n % 10)>>

\* Number.prototype.toString(): "NaN", "Infinity", "-Infinity", "0" for both
\* zeros, otherwise the shortest decimal form
NumberToString(x) ==
  IF x.k = "nan" THEN <<78, 97, 78>>
  ELSE IF x.k = "inf"
    THEN (IF x.neg THEN <<45>> ELSE <<>>) \o <<73, 110, 102, 105, 110, 105, 116, 121>>
  ELSE IF x.mant = 0 THEN <<48>>
  ELSE (IF x.neg THEN <<45>> ELSE <<>>)
         \o Digits(x.mant \div Pow10(x.scale))
         \o (IF x.scale = 0 THEN <<>>
             ELSE <<46>> \o PadDigits(x.mant % Pow10(x.scale), x.scale))

IsDigit(c) == c \in 48 .. 57

\* the longest prefix of s made of decimal digits
RECURSIVE DigitPrefix(_)
DigitPrefix(s) ==
  IF s /= <<>> /\ IsDigit(Head(s)) THEN <<Head(s)>> \o DigitPrefix(Tail(s))
  ELSE <<>>

\* the value of a sequence of decimal digits
RECURSIVE DigitsValue(_)
DigitsValue(ds) ==
  IF ds = <<>> THEN 0 ELSE DigitsValue(SubSeq(ds, 1, Len(ds) - 1)) * 10 + (ds[Len(ds)] - 48)

\* s without its first n elements
Drop(s, n) == SubSeq(s, n + 1, Len(s))

\* s starts with p
StartsWith(s, p) == Len(s) >= Len(p) /\ SubSeq(s, 1, Len(p)) = p

\* parseFloat(s): skip leading white space, then read the longest prefix that
\* is a StrDecimalLiteral (sign, "Infinity" or digits with an optional
\* fraction and exponent); whatever follows is ignored; NaN when there is none
parseFloat(s) ==
  LET t == TrimStart(s)
      signed == t /= <<>> /\ Head(t) \in {43, 45}
      neg == t /= <<>> /\ Head(t) = 45
      u == IF signed THEN Tail(t) ELSE t
      ip == DigitPrefix(u)
      afterInt == Drop(u, Len(ip))
      hasDot == afterInt /= <<>> /\ Head(afterInt) = 46
      fp == IF hasDot THEN DigitPrefix(Tail(afterInt)) ELSE <<>>
      afterFrac == IF hasDot THEN Drop(afterInt, 1 + Len(fp)) ELSE afterInt
      hasE == afterFrac /= <<>> /\ Head(afterFrac) \in {69, 101}
      e1 == IF hasE THEN Tail(afterFrac) ELSE <<>>
      eSigned == e1 /= <<>> /\ Head(e1) \in {43, 45}
      eNeg == e1 /= <<>> /\ Head(e1) = 45
      ed == DigitPrefix(IF eSigned THEN Tail(e1) ELSE e1)
      exp == IF ed = <<>> THEN 0
             ELSE IF eNeg THEN -DigitsValue(ed) ELSE DigitsValue(ed)
      mant == DigitsValue(ip \o fp)
      scale == Len(fp) - exp
  IN  IF StartsWith(u, <<73, 110, 102, 105, 110, 105, 116, 121>>) THEN Infinity(neg)
      ELSE IF ip = <<>> /\ fp = <<>> THEN NaN
      ELSE IF scale < 0 THEN Finite(neg, mant * Pow10(-scale), 0)
      ELSE Finite(neg, mant, scale)

(***************************************************************************)
(* Digests                                                                 *)
(***************************************************************************)

\* a ^ b on the low n bits
RECURSIVE XorBits(_, _, _)
XorBits(a, b, n) ==
  IF n = 0 THEN 0
  ELSE (((a % 2) + (b % 2)) % 2) + 2 * XorBits(a \div 2, b \div 2, n - 1)

\* the first loop of computeHashSync with the second cell read after the
\* first is written
RECURSIVE AbsorbInOrder(_, _)
AbsorbInOrder(st, data) ==
  IF st.n = 0 THEN st.simpleHash
  ELSE IF st.n = 1
    THEN LET xored == [st.simpleHash EXCEPT ![st.i % 32] =
                         XorBits(st.simpleHash[st.i % 32], data[st.i + 1], 8)]
         IN  [xored EXCEPT ![(st.i * 7) % 32] =
                ((xored[(st.i * 7) % 32] + data[st.i + 1]) * 31) % 256]
  ELSE AbsorbInOrder([simpleHash |-> AbsorbInOrder([simpleHash |-> st.simpleHash, i |-> st.i,
                                                    n |-> st.n \div 2], data),
                      i |-> st.i + st.n \div 2, n |-> st.n - st.n \div 2], data)

\* CryptoHash.computeHashSync, first loop: the iterations for the n positions
\* from i on (0-based), in order, st = [simpleHash, i, n]; a run of several
\* iterations is its first half followed by its second half.  In one
\* iteration the byte is XORed into cell i % 32 and folded into cell
\* (i * 7) % 32; both cells are read before either is written, so where the
\* two indices coincide the second write replaces the first
RECURSIVE Absorb(_, _)
Absorb(st, data) ==
  IF st.n = 0 THEN st.simpleHash
  ELSE IF st.n = 1
    THEN [[st.simpleHash EXCEPT ![st.i % 32] =
             XorBits(st.simpleHash[st.i % 32], data[st.i + 1], 8)]
            EXCEPT ![(st.i * 7) % 32] =
             ((st.simpleHash[(st.i * 7) % 32] + data[st.i + 1]) * 31) % 256]
  ELSE CHOOSE r \in
         { Absorb(rest, data) :
             rest \in {[simpleHash |-> Absorb([simpleHash |-> st.simpleHash, i |-> st.i,
                                               n |-> st.n \div 2], data),
                        i |-> st.i + st.n \div 2, n |-> st.n - st.n \div 2]} } : TRUE

\* CryptoHash.computeHashSync, one round of the second loop, from the loop
\* state st = [simpleHash, i] on: cells are updated in place, so prev is this
\* round's value and next the last round's (but for cell 31, whose next is
\* cell 0 of this round)
RECURSIVE DiffuseRound(_, _)
DiffuseRound(st, round) ==
  IF st.i >= 32 THEN st.simpleHash
  ELSE CHOOSE r \in
         { DiffuseRound(next, round) :
             next \in {[simpleHash |->
                          [st.simpleHash EXCEPT ![st.i] =
                             ((st.simpleHash[(st.i + 31) % 32] + st.simpleHash[st.i] * 2
                                 + st.simpleHash[(st.i + 1) % 32]) * 7 + round) % 256],
                        i |-> st.i + 1]} } : TRUE

\* CryptoHash.computeHashSync, second loop, from the loop state st =
\* [simpleHash, round] on
RECURSIVE Diffuse(_)
Diffuse(st) ==
  IF st.round >= 16 THEN st.simpleHash
  ELSE CHOOSE r \in
         { Diffuse(next) :
             next \in {[simpleHash |->
                          DiffuseRound([simpleHash |-> st.simpleHash, i |-> 0], st.round),
                        round |-> st.round + 1]} } : TRUE

\* CryptoHash.computeHashSync: the 32 bytes of the digest, indexed 0..31
computeHashSync(data) ==
  CHOOSE r \in
    { Diffuse(absorbed) :
        absorbed \in {[simpleHash |-> Absorb([simpleHash |-> [j \in 0 .. 31 |-> 0], i |-> 0,
                                              n |-> Len(data)], data),
                       round |-> 0]} } : TRUE

\* utils/crypto createHash('sha256').update(s).digest('hex'): the issuer's digest
CryptoHashHex(s) ==
  CHOOSE r \in
    { ToHex([j \in 1 .. 32 |-> h[j - 1]]) :
        h \in {CHOOSE d \in {computeHashSync(data) : data \in {Utf8(s)}} : TRUE} } : TRUE

\* node:crypto createHash('sha256') is SHA-256, FIPS 180-4.  Section 4.2.2:
\* the round constants K0 .. K63.  A 32-bit word is <<high half, low half>>
Sha256K ==
  <<<<17034, 12184>>, <<28983, 17553>>, <<46528, 64463>>, <<59829, 56229>>, <<14678, 49755>>,
    <<23025, 4593>>, <<37439, 33444>>, <<43804, 24277>>, <<55303, 43672>>, <<4739, 23297>>,
    <<9265, 34238>>, <<21772, 32195>>, <<29374, 23924>>, <<32990, 45566>>, <<39900, 1703>>,
    <<49563, 61812>>, <<58523, 27073>>, <<61374, 18310>>, <<4033, 40390>>, <<9228, 41420>>,
    <<11753, 11375>>, <<19060, 33962>>, <<23728, 43484>>, <<30457, 35034>>, <<38974, 20818>>,
    <<43057, 50797>>, <<45059, 10184>>, <<48985, 32711>>, <<50912, 3059>>, <<54695, 37191>>,
    <<1738, 25425>>, <<5161, 10599>>, <<10167, 2693>>, <<11803, 8504>>, <<19756, 28156>>,
    <<21304, 3347>>, <<25866, 29524>>, <<30314, 2747>>, <<33218, 51502>>, <<37490, 11397>>,
    <<41663, 59553>>, <<43034, 26187>>, <<49739, 35696>>, <<51052, 20899>>, <<53650, 59417>>,
    <<54937, 1572>>, <<62478, 13701>>, <<4202, 41072>>, <<6564, 49430>>, <<7735, 27656>>,
    <<10056, 30540>>, <<13488, 48309>>, <<14620, 3251>>, <<20184, 43594>>, <<23452, 51791>>,
    <<26670, 28659>>, <<29839, 33518>>, <<30885, 25455>>, <<33992, 30740>>, <<36039, 520>>,
    <<37054, 65530>>, <<42064, 27883>>, <<48889, 41975>>, <<50801, 30962>>>>

\* FIPS 180-4 section 5.3.3: the initial hash value H0 .. H7
Sha256H ==
  <<<<27145, 58983>>, <<47975, 44677>>, <<15470, 62322>>, <<42319, 62778>>, <<20750, 21119>>,
    <<39685, 26764>>, <<8067, 55723>>, <<23520, 52505>>>>

\* FIPS 180-4 section 3.2: SHR^n(x) on a 32-bit word
Shr(x, n) ==
  IF n >= 16 THEN <<0, x[1] \div 2^(n - 16)>>
  ELSE <<x[1] \div 2^n, (x[2] \div 2^n) + (x[1] % 2^n) * 2^(16 - n)>>

\* FIPS 180-4 section 3.2: ROTR^n(x) on a 32-bit word
Rotr(x, n) ==
  IF n >= 16 THEN <<(x[2] \div 2^(n - 16)) + (x[1] % 2^(n - 16)) * 2^(32 - n),
                    (x[1] \div 2^(n - 16)) + (x[2] % 2^(n - 16)) * 2^(32 - n)>>
  ELSE <<(x[1] \div 2^n) + (x[2] % 2^n) * 2^(16 - n),
         (x[2] \div 2^n) + (x[1] % 2^n) * 2^(16 - n)>>

\* x ^ y ^ z on 32-bit words
Xor3(x, y, z) ==
  <<XorBits(XorBits(x[1], y[1], 16), z[1], 16), XorBits(XorBits(x[2], y[2], 16), z[2], 16)>>

\* Ch(x, y, z) = (x & y) ^ (~x & z), with a & b = (a + b - (a ^ b)) / 2
Ch(x, y, z) ==
  LET Half(k) == (x[k] + y[k] - XorBits(x[k], y[k], 16)) \div 2
                   + ((65535 - x[k]) + z[k] - XorBits(65535 - x[k], z[k], 16)) \div 2
  IN  <<Half(1), Half(2)>>

\* Maj(x, y, z) = (x & y) ^ (x & z) ^ (y & z): x + y + z = (x ^ y ^ z) + 2 * Maj
Maj(x, y, z) ==
  LET x3 == Xor3(x, y, z)
  IN  <<(x[1] + y[1] + z[1] - x3[1]) \div 2, (x[2] + y[2] + z[2] - x3[2]) \div 2>>

\* the sum of the 32-bit words ws, modulo 2^32
RECURSIVE Add32(_)
Add32(ws) ==
  IF Len(ws) = 1 THEN ws[1]
  ELSE LET rest == Add32(Tail(ws))
           lo == ws[1][2] + rest[2]
       IN  <<(ws[1][1] + rest[1] + lo \div 65536) % 65536, lo % 65536>>

\* FIPS 180-4 section 6.2.2 step 1: the message schedule extended by n words
\* from the words w prepared so far (n steps are the first half of them
\* followed by the rest, the value in between bound before it is used)
RECURSIVE Sha256Schedule(_, _)
Sha256Schedule(w, n) ==
  IF n = 0 THEN w
  ELSE IF n = 1
    THEN LET t == Len(w) + 1
             x == w[t - 15]
             y == w[t - 2]
             sigma0 == Xor3(Rotr(x, 7), Rotr(x, 18), Shr(x, 3))
             sigma1 == Xor3(Rotr(y, 17), Rotr(y, 19), Shr(y, 10))
         IN  Append(w, Add32(<<sigma1, w[t - 7], sigma0, w[t - 16]>>))
  ELSE CHOOSE r \in {Sha256Schedule(u, n - n \div 2) : u \in {Sha256Schedule(w, n \div 2)}} : TRUE

\* FIPS 180-4 section 6.2.2 step 3: the n rounds from round t on (1-based),
\* on the working variables v = <<a, b, c, d, e, f, g, h>>
RECURSIVE Sha256Rounds(_, _, _, _)
Sha256Rounds(v, w, t, n) ==
  IF n = 0 THEN v
  ELSE IF n = 1
    THEN LET Sigma1 == Xor3(Rotr(v[5], 6), Rotr(v[5], 11), Rotr(v[5], 25))
             T1 == Add32(<<v[8], Sigma1, Ch(v[5], v[6], v[7]), Sha256K[t], w[t]>>)
             Sigma0 == Xor3(Rotr(v[1], 2), Rotr(v[1], 13), Rotr(v[1], 22))
             T2 == Add32(<<Sigma0, Maj(v[1], v[2], v[3])>>)
         IN  <<Add32(<<T1, T2>>), v[1], v[2], v[3], Add32(<<v[4], T1>>), v[5], v[6], v[7]>>
  ELSE CHOOSE r \in {Sha256Rounds(u, w, t + n \div 2, n - n \div 2) :
                      u \in {Sha256Rounds(v, w, t, n \div 2)}} : TRUE

\* FIPS 180-4 section 5.1.1: the message, the byte 0x80, zero bytes up to 8
\* short of a multiple of 64, and the length in bits as 8 bytes, high first
Sha256Pad(m) ==
  LET zeros == (119 - (Len(m) % 64)) % 64
      bits == Len(m) * 8
  IN  m \o <<128>> \o [i \in 1 .. zeros |-> 0]
        \o <<0, 0, 0, 0, 0, (bits \div 65536) % 256, (bits \div 256) % 256, bits % 256>>

\* FIPS 180-4 section 6.2.2: the hash value after the blocks from the n-th on
RECURSIVE Sha256Blocks(_, _, _)
Sha256Blocks(hash, padded, n) ==
  IF 64 * (n - 1) >= Len(padded) THEN hash
  ELSE LET M(j) == <<padded[64 * (n - 1) + 4 * j - 3] * 256 + padded[64 * (n - 1) + 4 * j - 2],
                     padded[64 * (n - 1) + 4 * j - 1] * 256 + padded[64 * (n - 1) + 4 * j]>>
           block == <<M(1), M(2), M(3), M(4), M(5), M(6), M(7), M(8),
                      M(9), M(10), M(11), M(12), M(13), M(14), M(15), M(16)>>
      IN  CHOOSE r \in
             {Sha256Blocks(<<Add32(<<hash[1], v[1]>>), Add32(<<hash[2], v[2]>>),
                             Add32(<<hash[3], v[3]>>), Add32(<<hash[4], v[4]>>),
                             Add32(<<hash[5], v[5]>>), Add32(<<hash[6], v[6]>>),
                             Add32(<<hash[7], v[7]>>), Add32(<<hash[8], v[8]>>)>>, padded, n + 1) :
                v \in {Sha256Rounds(hash, w, 1, 64) : w \in {Sha256Schedule(block, 48)}}} : TRUE

\* node:crypto createHash('sha256').update(s).digest('hex'), computed
Sha256Hex(s) ==
  LET hash == Sha256Blocks(Sha256H, Sha256Pad(Utf8(s)), 1)
  IN  ToHex([j \in 1 .. 32 |->
               LET half == hash[((j - 1) \div 4) + 1][(((j - 1) % 4) \div 2) + 1]
               IN  IF j % 2 = 1 THEN half \div 256 ELSE half % 256])

\* the marker that heads the digest term of node:crypto's SHA-256
Sha256Tag == <<115, 104, 97, 50, 53, 54, 58>>

\* node:crypto createHash('sha256').update(s).digest('hex'): the verifier's
\* digest as the calls of validate use it, in place of Sha256Hex(s): a term
\* over its input, equal for equal inputs only, and never a CryptoHash output
NodeSha256Hex(s) == Sha256Tag \o s

(***************************************************************************)
(* The random source                                                       *)
(***************************************************************************)

\* CryptoUtils.randomBytes(size) (and node:crypto's): the buffer.  The bytes
\* are an input; a buffer is filled with one byte value b
randomBytes(size, b) == [i \in 1 .. size |-> b]

\* CryptoBuffer.readUInt32LE(offset): the unsigned 32-bit value, held as its
\* two 16-bit halves (hi * 65536 + lo)
readUInt32LE(buffer, offset) ==
  [lo |-> buffer[offset + 1] + 256 * buffer[offset + 2],
   hi |-> buffer[offset + 3] + 256 * buffer[offset + 4]]

\* u % m for a 32-bit value u and 0 < m < 32768
U32Mod(u, m) == ((u.hi % m) * (65536 % m) + (u.lo % m)) % m

\* u >> 8: ToInt32(u) shifted right arithmetically
U32Shr8(u) ==
  (IF u.hi >= 32768 THEN u.hi - 65536 ELSE u.hi) * 256 + (u.lo \div 256)

\* a % m as JavaScript computes it: the sign of the dividend
JsRem(a, m) == IF a < 0 THEN -((-a) % m) ELSE a % m

\* Math.floor((u / 0xFFFFFFFF) * k) for a 32-bit value u and 0 < k <= 100:
\* k * u = q * 2^32 + r = q * (2^32 - 1) + (q + r)
FloorScaled(u, k) ==
  LET carry == (k * u.lo) \div 65536
      q == (k * u.hi + carry) \div 65536
      rhi == (k * u.hi + carry) % 65536
      rlo == (k * u.lo) % 65536
  IN  IF rhi = 65535 /\ rlo >= 65535 - q THEN q + 1 ELSE q

\* the byte that fills the buffer of the p-th randomBytes call (or the p-th
\* Math.random() value) of one generate(); a tape is read cyclically
Draw(tape, p) == tape[((p - 1) % Len(tape)) + 1]

\* Random.getRandomNumber(difficulty)
getRandomNumber(difficulty, b) ==
  LET rand == readUInt32LE(randomBytes(4, b), 0)
  IN  IF difficulty = "easy" THEN FloorScaled(rand, 10) + 1
      ELSE IF difficulty = "medium" THEN FloorScaled(rand, 50) + 1
      ELSE FloorScaled(rand, 100) + 1

\* Random.getRandomOperator(): '+', '-', '*', '/'
getRandomOperator(b) == <<43, 45, 42, 47>>[(randomBytes(1, b)[1] % 4) + 1]

\* Random.generateRandomString: the alphabet A-Z a-z 0-9
Chars == [i \in 1 .. 62 |-> IF i <= 26 THEN 64 + i ELSE IF i <= 52 THEN 70 + i ELSE i - 5]

\* Random.generateRandomString(difficulty)
generateRandomString(difficulty, b) ==
  LET length == IF difficulty = "easy" THEN 4 ELSE IF difficulty = "medium" THEN 6 ELSE 8
      buffer == randomBytes(length, b)
  IN  [i \in 1 .. length |-> Chars[(buffer[i] % 62) + 1]]

\* Random.generateNonce()
generateNonce(b) == ToHex(randomBytes(16, b))

\* Random.generateSalt()
generateSalt(b) == ToHex(randomBytes(8, b))

(***************************************************************************)
(* Puzzle data                                                             *)
(***************************************************************************)

\* ScrambleGenerator.words: apple cat dog house sun moon car tree book water
\* bread milk fish bird flower star hand eye nose mouth
ScrambleWords ==
  <<
    <<97,112,112,108,101>>,
    <<99,97,116>>,
    <<100,111,103>>,
    <<104,111,117,115,101>>,
    <<115,117,110>>,
    <<109,111,111,110>>,
    <<99,97,114>>,
    <<116,114,101,101>>,
    <<98,111,111,107>>,
    <<119,97,116,101,114>>,
    <<98,114,101,97,100>>,
    <<109,105,108,107>>,
    <<102,105,115,104>>,
    <<98,105,114,100>>,
    <<102,108,111,119,101,114>>,
    <<115,116,97,114>>,
    <<104,97,110,100>>,
    <<101,121,101>>,
    <<110,111,115,101>>,
    <<109,111,117,116,104>>
  >>

\* ReverseGenerator.easyWords (32 words, cat .. web)
easyWords ==
  <<
    <<99,97,116>>,
    <<100,111,103>>,
    <<115,117,110>>,
    <<109,111,111,110>>,
    <<115,116,97,114>>,
    <<102,105,115,104>>,
    <<98,105,114,100>>,
    <<116,114,101,101>>,
    <<98,97,108,108>>,
    <<98,111,111,107>>,
    <<100,111,111,114>>,
    <<108,97,109,112>>,
    <<114,111,99,107>>,
    <<108,101,97,102>>,
    <<119,105,110,100>>,
    <<102,105,114,101>>,
    <<105,99,101>>,
    <<115,107,121>>,
    <<115,101,97>>,
    <<102,111,103>>,
    <<114,97,105,110>>,
    <<115,110,111,119>>,
    <<98,101,97,114>>,
    <<119,111,108,102>>,
    <<99,111,105,110>>,
    <<107,101,121>>,
    <<99,117,112>>,
    <<112,101,110>>,
    <<98,111,120>>,
    <<104,97,116>>,
    <<109,97,112>>,
    <<119,101,98>>
  >>

\* ReverseGenerator.mediumWords (48 words, apple .. prism)
mediumWords ==
  <<
    <<97,112,112,108,101>>,
    <<104,111,117,115,101>>,
    <<119,97,116,101,114>>,
    <<98,114,101,97,100>>,
    <<111,99,101,97,110>>,
    <<114,105,118,101,114>>,
    <<116,105,103,101,114>>,
    <<101,97,103,108,101>>,
    <<115,116,111,114,109>>,
    <<99,108,111,117,100>>,
    <<102,108,97,109,101>>,
    <<102,114,111,115,116>>,
    <<115,116,111,110,101>>,
    <<109,101,116,97,108>>,
    <<103,108,97,115,115>>,
    <<112,97,112,101,114>>,
    <<102,111,114,101,115,116>>,
    <<100,101,115,101,114,116>>,
    <<118,97,108,108,101,121>>,
    <<99,97,115,116,108,101>>,
    <<98,114,105,100,103,101>>,
    <<103,97,114,100,101,110>>,
    <<109,97,114,107,101,116>>,
    <<116,101,109,112,108,101>>,
    <<100,114,97,103,111,110>>,
    <<119,105,122,97,114,100>>,
    <<107,110,105,103,104,116>>,
    <<115,104,105,101,108,100>>,
    <<115,119,111,114,100>>,
    <<99,114,111,119,110>>,
    <<106,101,119,101,108>>,
    <<99,114,121,115,116,97,108>>,
    <<112,108,97,110,101,116>>,
    <<103,97,108,97,120,121>>,
    <<99,111,109,101,116>>,
    <<110,101,98,117,108,97>>,
    <<99,105,112,104,101,114>>,
    <<101,110,105,103,109,97>>,
    <<112,117,122,122,108,101>>,
    <<114,105,100,100,108,101>>,
    <<115,104,97,100,111,119>>,
    <<109,105,114,114,111,114>>,
    <<112,111,114,116,97,108>>,
    <<98,101,97,99,111,110>>,
    <<97,110,99,104,111,114>>,
    <<99,111,109,112,97,115,115>>,
    <<108,97,110,116,101,114,110>>,
    <<112,114,105,115,109>>
  >>

\* ReverseGenerator.hardWords (45 words, typescript .. degeneration)
hardWords ==
  <<
    <<116,121,112,101,115,99,114,105,112,116>>,
    <<106,97,118,97,115,99,114,105,112,116>>,
    <<101,110,99,114,121,112,116,105,111,110>>,
    <<99,114,121,112,116,111,103,114,97,112,104,121>>,
    <<97,108,103,111,114,105,116,104,109>>,
    <<105,110,102,114,97,115,116,114,117,99,116,117,114,101>>,
    <<97,114,99,104,105,116,101,99,116,117,114,101>>,
    <<97,117,116,104,101,110,116,105,99,97,116,105,111,110>>,
    <<97,117,116,104,111,114,105,122,97,116,105,111,110>>,
    <<118,117,108,110,101,114,97,98,105,108,105,116,121>>,
    <<99,121,98,101,114,115,101,99,117,114,105,116,121>>,
    <<98,108,111,99,107,99,104,97,105,110>>,
    <<109,101,116,97,109,111,114,112,104,111,115,105,115>>,
    <<99,111,110,115,116,101,108,108,97,116,105,111,110>>,
    <<115,121,110,99,104,114,111,110,105,122,97,116,105,111,110>>,
    <<116,114,97,110,115,102,111,114,109,97,116,105,111,110>>,
    <<105,108,108,117,109,105,110,97,116,105,111,110>>,
    <<111,114,99,104,101,115,116,114,97,116,105,111,110>>,
    <<100,101,110,111,109,105,110,97,116,105,111,110>>,
    <<99,111,109,112,114,101,104,101,110,115,105,111,110>>,
    <<109,97,110,105,102,101,115,116,97,116,105,111,110>>,
    <<101,120,116,114,97,111,114,100,105,110,97,114,121>>,
    <<114,101,118,111,108,117,116,105,111,110,97,114,121>>,
    <<115,111,112,104,105,115,116,105,99,97,116,101,100>>,
    <<107,97,108,101,105,100,111,115,99,111,112,101>>,
    <<111,112,116,105,109,105,122,97,116,105,111,110>>,
    <<99,114,121,115,116,97,108,108,105,122,97,116,105,111,110>>,
    <<99,111,110,102,105,103,117,114,97,116,105,111,110>>,
    <<105,109,112,108,101,109,101,110,116,97,116,105,111,110>>,
    <<112,97,114,97,108,108,101,108,105,122,97,116,105,111,110>>,
    <<115,101,114,105,97,108,105,122,97,116,105,111,110>>,
    <<100,101,99,101,110,116,114,97,108,105,122,97,116,105,111,110>>,
    <<105,110,116,101,114,110,97,116,105,111,110,97,108,105,122,97,116,105,111,110>>,
    <<99,111,110,116,97,105,110,101,114,105,122,97,116,105,111,110>>,
    <<118,105,114,116,117,97,108,105,122,97,116,105,111,110>>,
    <<111,98,102,117,115,99,97,116,105,111,110>>,
    <<116,114,105,97,110,103,117,108,97,116,105,111,110>>,
    <<105,110,116,101,114,112,111,108,97,116,105,111,110>>,
    <<101,120,116,114,97,112,111,108,97,116,105,111,110>>,
    <<97,112,112,114,111,120,105,109,97,116,105,111,110>>,
    <<115,101,103,109,101,110,116,97,116,105,111,110>>,
    <<102,114,97,103,109,101,110,116,97,116,105,111,110>>,
    <<99,111,110,99,97,116,101,110,97,116,105,111,110>>,
    <<114,101,103,101,110,101,114,97,116,105,111,110>>,
    <<100,101,103,101,110,101,114,97,116,105,111,110>>
  >>

\* locale/en.json riddles, the documented entry: answer "piano"
RiddlesEn ==
  <<
    [question |-> <<87,104,97,116,32,104,97,115,32,107,101,121,115,32,98,117,116,32,99,97,110,39,116,32,111,112,101,110,32,108,111,99,107,115,63>>,
     answer |-> <<112,105,97,110,111>>]
  >>

\* locale/tr.json riddles, the documented entry: answer "piyano"
RiddlesTr ==
  <<
    [question |-> <<84,117,351,108,97,114,305,32,118,97,114,100,305,114,32,97,109,97,32,107,105,108,105,116,32,97,231,97,109,97,122,46,32,78,101,100,105,114,63>>,
     answer |-> <<112,105,121,97,110,111>>]
  >>

\* locale/en.json logics, the documented entry: answer "false"
LogicsEn ==
  <<
    [question |-> <<87,97,116,101,114,32,105,115,32,100,114,121,46,32,84,114,117,101,32,111,114,32,70,97,108,115,101,63>>,
     answer |-> <<102,97,108,115,101>>]
  >>

\* locale/tr.json logics, the documented entry: answer "yanl\u0131\u015f"
LogicsTr ==
  <<
    [question |-> <<83,117,32,107,117,114,117,32,98,105,114,32,109,97,100,100,101,100,105,114,46,32,68,111,287,114,117,32,109,117,32,89,97,110,108,305,351,32,109,305,63>>,
     answer |-> <<121,97,110,108,305,351>>]
  >>

\* the custom questions of testCustomQuestions, as sanitize() leaves them
\* (answers paris, jupiter, shakespeare)
TestQuestions ==
  <<
    [question |-> <<87,104,97,116,32,105,115,32,116,104,101,32,99,97,112,105,116,97,108,32,111,102,32,70,114,97,110,99,101,63>>,
     answer |-> <<112,97,114,105,115>>,
     difficulty |-> "easy"],
    [question |-> <<87,104,97,116,32,105,115,32,116,104,101,32,108,97,114,103,101,115,116,32,112,108,97,110,101,116,32,105,110,32,111,117,114,32,115,111,108,97,114,32,115,121,115,116,101,109,63>>,
     answer |-> <<106,117,112,105,116,101,114>>,
     difficulty |-> "medium"],
    [question |-> <<87,104,111,32,119,114,111,116,101,32,82,111,109,101,111,32,97,110,100,32,74,117,108,105,101,116,63>>,
     answer |-> <<115,104,97,107,101,115,112,101,97,114,101>>,
     difficulty |-> "hard"]
  >>

(***************************************************************************)
(* Puzzle providers.  Each returns [threw, question, answer, pos]: whether *)
(* it threw, the pair, and the position of the next draw on the tape.      *)
(***************************************************************************)

\* a string answer
StrAnswer(s) == [isNumber |-> FALSE, num |-> NaN, str |-> s]

\* a number answer
NumAnswer(x) == [isNumber |-> TRUE, num |-> x, str |-> <<>>]

\* answer.toString()
AnswerToString(a) == IF a.isNumber THEN NumberToString(a.num) ELSE a.str

\* a provider's result
Puzzle(q, a, pos) == [threw |-> FALSE, question |-> q, answer |-> a, pos |-> pos]

\* a provider that threw (a TypeError on an undefined value)
Thrown(pos) == [threw |-> TRUE, question |-> <<>>, answer |-> StrAnswer(<<>>), pos |-> pos]

\* the hundredths of a / b rounded to the nearest, halves up
NearestHundredths(a, b) == (200 * a + b) \div (2 * b)

\* the operands a, b in 1 .. 101 for which 100 * a / b ends in one half and
\* the double (a / b) * 100 is below that half: a / b is not a double, the
\* nearest double is below it, and the product is rounded to the double
\* next below the half
BelowHalf ==
  {<<23, 40>>, <<41, 40>>, <<46, 80>>, <<51, 40>>, <<82, 80>>, <<87, 40>>, <<97, 40>>}

\* Math.round((a / b) * 100) for the integers a, b in 1 .. 101 that
\* getRandomNumber returns: Math.round takes the double product to the
\* nearest integer, halves up
RoundHundredths(a, b) ==
  IF <<a, b>> \in BelowHalf THEN NearestHundredths(a, b) - 1 ELSE NearestHundredths(a, b)

\* CaptchaGenerator.calculateMath(a, op, b)
calculateMath(a, op, b) ==
  IF op = 43 THEN IntNum(a + b)
  ELSE IF op = 45 THEN IntNum(a - b)
  ELSE IF op = 42 THEN IntNum(a * b)
  ELSE IF op = 47
    THEN (IF b = 0 THEN NaN ELSE Finite(FALSE, RoundHundredths(a, b), 2))
  ELSE IntNum(0)

\* CaptchaGenerator.generateMath, up to the call of createChallenge: the pair
\* (a NaN result starts over with fresh draws)
RECURSIVE MathPuzzle(_, _, _)
MathPuzzle(difficulty, tape, pos) ==
  LET num1 == getRandomNumber(difficulty, Draw(tape, pos))
      first2 == getRandomNumber(difficulty, Draw(tape, pos + 1))
      operator == getRandomOperator(Draw(tape, pos + 2))
      resample == operator = 47 /\ first2 = 0
      num2 == IF resample THEN getRandomNumber(difficulty, Draw(tape, pos + 3)) + 1
              ELSE first2
      next == IF resample THEN pos + 4 ELSE pos + 3
      question == Digits(num1) \o <<32, operator, 32>> \o Digits(num2)
      answer == calculateMath(num1, operator, num2)
  IN  IF isNaN(answer) THEN MathPuzzle(difficulty, tape, next)
      ELSE Puzzle(question, NumAnswer(answer), next)

\* CaptchaGenerator.generateText, up to createChallenge
TextPuzzle(difficulty, tape, pos) ==
  LET text == generateRandomString(difficulty, Draw(tape, pos))
  IN  Puzzle(text, StrAnswer(text), pos + 1)

\* RiddleBank.data
RiddleData(locale) == IF locale = "tr" THEN RiddlesTr ELSE RiddlesEn

\* RiddleBank.getRandom(locale, difficulty): data has the keys en and tr, so
\* for another locale riddles is undefined and reading riddles.length, after
\* the buffer is drawn, throws
RiddlePuzzle(locale, tape, pos) ==
  LET riddles == RiddleData(locale)
      buffer == randomBytes(4, Draw(tape, pos))
      index == U32Mod(readUInt32LE(buffer, 0), Len(riddles))
  IN  IF locale \notin {"en", "tr"} THEN Thrown(pos + 1)
      ELSE Puzzle(riddles[index + 1].question, StrAnswer(riddles[index + 1].answer), pos + 1)

\* LogicGenerator.data
LogicData(locale) == IF locale = "tr" THEN LogicsTr ELSE LogicsEn

\* LogicGenerator.getRandom(locale, difficulty): as RiddleBank.getRandom
LogicPuzzle(locale, tape, pos) ==
  LET logics == LogicData(locale)
      buffer == randomBytes(4, Draw(tape, pos))
      index == U32Mod(readUInt32LE(buffer, 0), Len(logics))
  IN  IF locale \notin {"en", "tr"} THEN Thrown(pos + 1)
      ELSE Puzzle(logics[index + 1].question, StrAnswer(logics[index + 1].answer), pos + 1)

\* the letters of SequenceGenerator.generate: 'A' .. 'J'
Letters == [i \in 1 .. 10 |-> <<64 + i>>]

\* `${sequence.join(', ')}, ?`
SequenceQuestion(sequence) == Join(sequence, <<44, 32>>) \o <<44, 32, 63>>

\* SequenceGenerator.generate(difficulty)
SequencePuzzle(difficulty, tape, pos) ==
  LET buffer == randomBytes(4, Draw(tape, pos))
      u == readUInt32LE(buffer, 0)
  IN  IF difficulty = "easy"
        THEN LET start == U32Mod(u, 5) + 1
                 step == JsRem(U32Shr8(u), 3) + 1
                 sequence == <<start, start + step, start + 2 * step>>
             IN  Puzzle(SequenceQuestion([i \in 1 .. 3 |-> NumberToString(IntNum(sequence[i]))]),
                        NumAnswer(IntNum(start + 3 * step)), pos + 1)
      ELSE IF difficulty = "medium"
        THEN LET start == U32Mod(u, 4)
                 step == 2
                 sequence == <<Letters[start + 1], Letters[start + step + 1],
                               Letters[start + 2 * step + 1]>>
                 nextIndex == start + 3 * step
             IN  IF nextIndex >= Len(Letters)
                   THEN Puzzle(SequenceQuestion(sequence), StrAnswer(<<63>>), pos + 1)
                   ELSE Puzzle(SequenceQuestion(sequence),
                               StrAnswer(Letters[nextIndex + 1]), pos + 1)
      ELSE Puzzle(SequenceQuestion(<<<<49>>, <<49>>, <<50>>, <<51>>>>),
                  NumAnswer(IntNum(5)), pos)

\* [arr[i], arr[j]] = [arr[j], arr[i]] (0-based)
Swap(arr, i, j) == [arr EXCEPT ![i + 1] = arr[j + 1], ![j + 1] = arr[i + 1]]

\* ScrambleGenerator.scramble: the Fisher-Yates loop from index i down
RECURSIVE scramble(_, _, _, _)
scramble(arr, i, tape, pos) ==
  IF i <= 0 THEN arr
  ELSE LET buffer == randomBytes(4, Draw(tape, pos))
           j == U32Mod(readUInt32LE(buffer, 0), i + 1)
       IN  scramble(Swap(arr, i, j), i - 1, tape, pos + 1)

\* ScrambleGenerator.generate(difficulty): an index past the end of words
\* yields undefined, and scramble(undefined) throws
ScramblePuzzle(difficulty, tape, pos) ==
  LET buffer == randomBytes(4, Draw(tape, pos))
      rand == readUInt32LE(buffer, 0)
      index == IF difficulty = "easy" THEN FloorScaled(rand, 10)
               ELSE FloorScaled(rand, Len(ScrambleWords))
      typescript == <<116, 121, 112, 101, 115, 99, 114, 105, 112, 116>>
      defined == difficulty \notin {"easy", "medium"} \/ index < Len(ScrambleWords)
      word == IF difficulty \in {"easy", "medium"}
                THEN ScrambleWords[IF defined THEN index + 1 ELSE 1]
                ELSE typescript
  IN  IF ~defined THEN Thrown(pos + 1)
      ELSE Puzzle(scramble(word, Len(word) - 1, tape, pos + 1), StrAnswer(word),
                  pos + Len(word))

\* text.split('').reverse().join('')
Reverse(s) == [i \in 1 .. Len(s) |-> s[Len(s) + 1 - i]]

\* ReverseGenerator.generate(difficulty): Math.random() is b / 256; with no
\* pool chosen, reading wordPool.length, after Math.random() is called, throws
ReversePuzzle(difficulty, tape, pos) ==
  LET chosen == difficulty \in {"easy", "medium", "hard"}
      wordPool == IF difficulty = "hard" THEN hardWords
                  ELSE IF difficulty = "medium" THEN mediumWords
                  ELSE easyWords
      text == wordPool[((Draw(tape, pos) * Len(wordPool)) \div 256) + 1]
  IN  IF ~chosen THEN Thrown(pos + 1)
      ELSE Puzzle(Reverse(text), StrAnswer(text), pos + 1)

\* CustomQuestionGenerator.generate() / selectRandom(questions)
CustomPuzzle(questions, tape, pos) ==
  IF Len(questions) = 0 THEN Puzzle(<<>>, StrAnswer(<<>>), pos)
  ELSE LET buffer == randomBytes(4, Draw(tape, pos))
           index == U32Mod(readUInt32LE(buffer, 0), Len(questions))
           selected == questions[index + 1]
       IN  Puzzle(selected.question, StrAnswer(selected.answer), pos + 1)

(***************************************************************************)
(* The issuer: CaptchaGenerator                                            *)
(***************************************************************************)

\* the challenge lifetime, 5 * 60 * 1000 ms
TTL == 300000

\* no challenge (nothing returned)
NoChallenge ==
  [type |-> "none", question |-> <<>>, answer |-> StrAnswer(<<>>), nonce |-> <<>>,
   expiry |-> 0, hashedAnswer |-> <<>>, salt |-> <<>>, steps |-> <<>>]

\* the outcome of (a part of) generate(): status "ok" (ch is returned),
\* "threw" (an exception left the call) or "spin" (the nonce loop found no
\* fresh nonce on the whole tape); g is the generator afterwards
Outcome(status, ch, g) == [status |-> status, ch |-> ch, g |-> g]

\* the least element of a non-empty set of naturals
Min(S) == CHOOSE k \in S : \A j \in S : k <= j

\* createChallenge without the retry loop: the first nonce drawn is taken
createChallengeNoRetry(base, g) ==
  LET nonce == generateNonce(Draw(g.tape, g.pos))
      salt == generateSalt(Draw(g.tape, g.pos + 1))
  IN  Outcome("ok",
              [type |-> base.type, question |-> base.question, answer |-> base.answer,
               nonce |-> nonce, expiry |-> g.now + TTL,
               hashedAnswer |-> CryptoHashHex(AnswerToString(base.answer) \o salt),
               salt |-> salt, steps |-> base.steps],
              [g EXCEPT !.pos = g.pos + 2, !.used = g.used \cup {nonce},
                        !.now = g.now + g.gap, !.reads = Append(g.reads, g.now)])

\* CaptchaGenerator.createChallenge(base), called with the generator in state
\* g = [tape, pos, used, now, gap, type, reads]: tape and pos are the random
\* source, used is usedNonces, now the clock, type is standardOptions.type and
\* reads lists the values Date.now() has returned; gap ms pass before the
\* clock is read again.  The nonce loop draws until a nonce is not in
\* usedNonces.
createChallenge(base, g) ==
  LET fresh == {k \in 0 .. Len(g.tape) - 1 :
                  generateNonce(Draw(g.tape, g.pos + k)) \notin g.used}
      k == Min(fresh)
      nonce == generateNonce(Draw(g.tape, g.pos + k))
      expiry == g.now + TTL
      salt == generateSalt(Draw(g.tape, g.pos + k + 1))
      hashedAnswer == CryptoHashHex(AnswerToString(base.answer) \o salt)
  IN  IF fresh = {} THEN Outcome("spin", NoChallenge, g)
      ELSE Outcome("ok",
                   [type |-> base.type, question |-> base.question,
                    answer |-> base.answer, nonce |-> nonce, expiry |-> expiry,
                    hashedAnswer |-> hashedAnswer, salt |-> salt, steps |-> base.steps],
                   [g EXCEPT !.pos = g.pos + k + 2, !.used = g.used \cup {nonce},
                             !.now = g.now + g.gap, !.reads = Append(g.reads, g.now)])

\* CaptchaGenerator.getDifficulty()
getDifficulty(opts) == IF opts.custom THEN "easy" ELSE opts.difficulty

\* CaptchaGenerator.getLocale()
getLocale(opts) ==
  IF opts.custom THEN "en" ELSE IF opts.locale = "" THEN "en" ELSE opts.locale

\* generateMath .. generateReverse and generateCustom: the provider's pair,
\* then createChallenge
generateFrom(type, puzzle, g) ==
  IF puzzle.threw THEN Outcome("threw", NoChallenge, [g EXCEPT !.pos = puzzle.pos])
  ELSE createChallenge([type |-> type, question |-> puzzle.question,
                        answer |-> puzzle.answer, steps |-> <<>>],
                       [g EXCEPT !.pos = puzzle.pos])

\* CaptchaGenerator.generateCustom()
generateCustom(opts, g) ==
  generateFrom("custom", CustomPuzzle(opts.questions, g.tape, g.pos), g)

\* CaptchaGenerator.generateMath()
generateMath(opts, g) ==
  generateFrom("math", MathPuzzle(getDifficulty(opts), g.tape, g.pos), g)

\* CaptchaGenerator.generateText()
generateText(opts, g) ==
  generateFrom("text", TextPuzzle(getDifficulty(opts), g.tape, g.pos), g)

\* CaptchaGenerator.generateRiddle()
generateRiddle(opts, g) ==
  generateFrom("riddle", RiddlePuzzle(getLocale(opts), g.tape, g.pos), g)

\* CaptchaGenerator.generateSequence()
generateSequence(opts, g) ==
  generateFrom("sequence", SequencePuzzle(getDifficulty(opts), g.tape, g.pos), g)

\* CaptchaGenerator.generateScramble()
generateScramble(opts, g) ==
  generateFrom("scramble", ScramblePuzzle(getDifficulty(opts), g.tape, g.pos), g)

\* CaptchaGenerator.generateLogic()
generateLogic(opts, g) ==
  generateFrom("logic", LogicPuzzle(getLocale(opts), g.tape, g.pos), g)

\* CaptchaGenerator.generateReverse()
generateReverse(opts, g) ==
  generateFrom("reverse", ReversePuzzle(getDifficulty(opts), g.tape, g.pos), g)

\* CaptchaGenerator.generateMulti(): a math step, a riddle step, then the
\* parent, each through createChallenge
generateMulti(opts, g) ==
  LET step1 == generateMath(opts, g)
      step2 == generateRiddle(opts, step1.g)
  IN  IF step1.status /= "ok" THEN step1
      ELSE IF step2.status /= "ok" THEN step2
      ELSE createChallenge(
             [type |-> "multi",
              question |-> <<67,111,109,112,108,101,116,101,32,116,119,111,32,115,116,101,112,115>>,
              answer |-> StrAnswer(<<>>),
              steps |-> <<step1.ch, step2.ch>>],
             step2.g)

\* the sub-kinds generateMixed draws from
MixedTypes == <<"math", "text", "riddle", "sequence", "scramble", "logic", "reverse">>

\* the sub-kind drawn from all nine kinds
MixedSubKindOfAll(b) ==
  LET types == MixedTypes \o <<"mixed", "multi">>
      buffer == randomBytes(1, b)
  IN  types[(buffer[1] % Len(types)) + 1]

\* the first lines of generateMixed: types[buffer[0] % types.length], where
\* randomBytes(1) returns the byte b
MixedSubKind(b) ==
  LET buffer == randomBytes(1, b)
  IN  MixedTypes[(buffer[1] % Len(MixedTypes)) + 1]

RECURSIVE generate(_, _)

\* generateMixed with the second pass drawing a new nonce and salt but
\* keeping the digest of the first pass
generateMixedResalted(opts, g) ==
  LET randomType == MixedSubKind(Draw(g.tape, g.pos))
      previousType == g.type
      challenge == generate(opts, [g EXCEPT !.pos = g.pos + 1, !.type = randomType])
      again == createChallenge([challenge.ch EXCEPT !.type = "mixed"],
                               [challenge.g EXCEPT !.type = previousType])
  IN  IF challenge.status /= "ok" \/ again.status /= "ok" THEN challenge
      ELSE [again EXCEPT !.ch.hashedAnswer = challenge.ch.hashedAnswer]

\* generateMixed with the second pass keeping the expiry of the first pass
generateMixedKeepExpiry(opts, g) ==
  LET randomType == MixedSubKind(Draw(g.tape, g.pos))
      previousType == g.type
      challenge == generate(opts, [g EXCEPT !.pos = g.pos + 1, !.type = randomType])
      again == createChallenge([challenge.ch EXCEPT !.type = "mixed"],
                               [challenge.g EXCEPT !.type = previousType])
  IN  IF challenge.status /= "ok" \/ again.status /= "ok" THEN challenge
      ELSE [again EXCEPT !.ch.expiry = challenge.ch.expiry]

\* CaptchaGenerator.generateMixed(): standardOptions.type is set to the drawn
\* sub-kind for the inner generate() and put back after it returns (not when
\* it throws); the inner record goes through createChallenge a second time
generateMixed(opts, g) ==
  LET randomType == MixedSubKind(Draw(g.tape, g.pos))
      previousType == g.type
      challenge == generate(opts, [g EXCEPT !.pos = g.pos + 1, !.type = randomType])
  IN  IF challenge.status /= "ok" THEN challenge
      ELSE createChallenge([challenge.ch EXCEPT !.type = "mixed"],
                           [challenge.g EXCEPT !.type = previousType])

\* CaptchaGenerator.generate(), with standardOptions.type held in g.type
generate(opts, g) ==
  IF opts.custom THEN generateCustom(opts, g)
  ELSE IF g.type = "math" THEN generateMath(opts, g)
  ELSE IF g.type = "text" THEN generateText(opts, g)
  ELSE IF g.type = "riddle" THEN generateRiddle(opts, g)
  ELSE IF g.type = "sequence" THEN generateSequence(opts, g)
  ELSE IF g.type = "scramble" THEN generateScramble(opts, g)
  ELSE IF g.type = "logic" THEN generateLogic(opts, g)
  ELSE IF g.type = "reverse" THEN generateReverse(opts, g)
  ELSE IF g.type = "multi" THEN generateMulti(opts, g)
  ELSE generateMixed(opts, g)

(***************************************************************************)
(* JSON text                                                               *)
(***************************************************************************)

\* a JavaScript value as far as the verifier looks at it: t is its kind
\* ("string", "number", "boolean", "null", "array", "object"), v the content
\* of a string, items the elements of an array
JsValue(t, v, items) == [t |-> t, v |-> v, items |-> items]

JsString(v) == JsValue("string", v, <<>>)

\* the outcome of parsing a JSON value: ok is FALSE for a SyntaxError, next
\* is the index after the value
Parsed(val, next) == [ok |-> TRUE, val |-> val, next |-> next]

SyntaxError == [ok |-> FALSE, val |-> JsValue("null", <<>>, <<>>), next |-> 0]

\* JSON white space: space, tab, line feed, carriage return
JsonWs == {32, 9, 10, 13}

\* the first index from i on that holds no JSON white space (Len(s) + 1 if
\* there is none)
SkipWs(s, i) ==
  IF \A j \in i .. Len(s) : s[j] \in JsonWs THEN Len(s) + 1
  ELSE CHOOSE j \in i .. Len(s) :
         s[j] \notin JsonWs /\ \A k \in i .. j - 1 : s[k] \in JsonWs

\* the number of consecutive decimal digits of s from index i on
DigitRun(s, i) ==
  IF \A j \in i .. Len(s) : IsDigit(s[j]) THEN Len(s) + 1 - i
  ELSE (CHOOSE j \in i .. Len(s) :
          ~IsDigit(s[j]) /\ \A k \in i .. j - 1 : IsDigit(s[k])) - i

HexValue(c) ==
  IF c \in 48 .. 57 THEN c - 48
  ELSE IF c \in 97 .. 102 THEN c - 87
  ELSE IF c \in 65 .. 70 THEN c - 55
  ELSE -1

\* the character a JSON escape letter stands for (-1: none)
Unescape(c) ==
  IF c \in {34, 92, 47} THEN c
  ELSE IF c = 98 THEN 8
  ELSE IF c = 102 THEN 12
  ELSE IF c = 110 THEN 10
  ELSE IF c = 114 THEN 13
  ELSE IF c = 116 THEN 9
  ELSE -1

\* the number of backslashes that end just before index j of s, counted
\* back as far as index i
BackslashRun(s, i, j) ==
  IF j <= i \/ s[j - 1] /= 92 THEN 0
  ELSE IF \A k \in i .. j - 1 : s[k] = 92 THEN j - i
  ELSE j - 1 - (CHOOSE k \in i .. j - 1 : s[k] /= 92 /\ \A m \in k + 1 .. j - 1 : s[m] = 92)

\* index j of s follows the backslash of an escape that began at or after i
Escaped(s, i, j) == BackslashRun(s, i, j) % 2 = 1

\* the four hexadecimal digits after the u at index j are there
HexAt(s, j) == j + 4 <= Len(s) /\ \A k \in 1 .. 4 : HexValue(s[j + k]) >= 0

\* what index j of a string literal that began at i adds to the string: the
\* character itself, the character an escape stands for, or nothing (the
\* backslash of an escape, the digits of a \u escape)
Unquoted(s, i, j) ==
  IF Escaped(s, i, j)
    THEN IF s[j] = 117
           THEN <<HexValue(s[j + 1]) * 4096 + HexValue(s[j + 2]) * 256
                    + HexValue(s[j + 3]) * 16 + HexValue(s[j + 4])>>
           ELSE <<Unescape(s[j])>>
  ELSE IF s[j] = 92 THEN <<>>
  ELSE IF \E e \in j - 4 .. j - 1 : e >= i /\ s[e] = 117 /\ Escaped(s, i, e) THEN <<>>
  ELSE <<s[j]>>

\* the rest of a JSON string literal; st = [s, i, acc], i after the opening
\* quote and after the characters collected in acc: the literal ends at the
\* first quote that is not escaped, and holds no control character and no
\* escape other than \" \\ \/ \b \f \n \r \t and \u with four digits
ParseString(st) ==
  CHOOSE r \in
    { IF closing = {} THEN SyntaxError
      ELSE CHOOSE q \in
             { IF \E j \in st.i .. end - 1 :
                    \/ st.s[j] < 32
                    \/ /\ Escaped(st.s, st.i, j)
                       /\ IF st.s[j] = 117 THEN ~HexAt(st.s, j) ELSE Unescape(st.s[j]) < 0
               THEN SyntaxError
               ELSE Parsed(JsString(st.acc \o Concat([j \in 1 .. end - st.i |->
                                                        Unquoted(st.s, st.i, st.i + j - 1)])),
                           end + 1)
               \* the first of them
               : end \in {CHOOSE j \in closing : \A k \in closing : j <= k} } : TRUE
      : closing \in {{j \in st.i .. Len(st.s) : st.s[j] = 34 /\ ~Escaped(st.s, st.i, j)}} } : TRUE

\* a JSON number literal at index i: -? (0 | [1-9][0-9]*) (. [0-9]+)? ([eE] [+-]? [0-9]+)?
ParseNumber(s, i) ==
  LET i1 == IF s[i] = 45 THEN i + 1 ELSE i
      int == DigitRun(s, i1)
      i2 == IF int > 0 /\ s[i1] = 48 THEN i1 + 1 ELSE i1 + int
      hasFrac == i2 <= Len(s) /\ s[i2] = 46
      frac == DigitRun(s, i2 + 1)
      i3 == IF hasFrac THEN i2 + 1 + frac ELSE i2
      hasExp == i3 <= Len(s) /\ s[i3] \in {101, 69}
      i4 == IF i3 + 1 <= Len(s) /\ s[i3 + 1] \in {43, 45} THEN i3 + 2 ELSE i3 + 1
      exp == DigitRun(s, i4)
      i5 == IF hasExp THEN i4 + exp ELSE i3
  IN  IF int = 0 \/ (hasFrac /\ frac = 0) \/ (hasExp /\ exp = 0) THEN SyntaxError
      ELSE Parsed(JsValue("number", SubSeq(s, i, i5 - 1), <<>>), i5)

\* the literal lit of kind t at index i
ParseLiteral(s, i, lit, t) ==
  IF StartsWith(Drop(s, i - 1), lit) THEN Parsed(JsValue(t, <<>>, <<>>), i + Len(lit))
  ELSE SyntaxError

RECURSIVE ParseValue(_, _)
RECURSIVE ParseItems(_)
RECURSIVE ParseMembers(_)

\* the elements of an array after the first; st = [s, i, acc], i at the
\* start of an element, acc the elements before it
ParseItems(st) ==
  CHOOSE r \in
    { IF ~v.ok THEN SyntaxError
      ELSE CHOOSE q \in
             { IF k > Len(st.s) THEN SyntaxError
               ELSE IF st.s[k] = 93
                 THEN Parsed(JsValue("array", <<>>, Append(st.acc, v.val)), k + 1)
               ELSE IF st.s[k] = 44 THEN
                 ParseItems([s |-> st.s, i |-> SkipWs(st.s, k + 1),
                             acc |-> Append(st.acc, v.val)])
               ELSE SyntaxError : k \in {SkipWs(st.s, v.next)} } : TRUE
      : v \in {ParseValue(st.s, st.i)} } : TRUE

\* the members of an object; st = [s, i], i at the start of a member
ParseMembers(st) ==
  LET key == IF st.i <= Len(st.s) /\ st.s[st.i] = 34
             THEN ParseString([s |-> st.s, i |-> st.i + 1, acc |-> <<>>])
             ELSE SyntaxError
      c == SkipWs(st.s, key.next)
      v == IF key.ok /\ c <= Len(st.s) /\ st.s[c] = 58
           THEN ParseValue(st.s, SkipWs(st.s, c + 1))
           ELSE SyntaxError
      k == SkipWs(st.s, v.next)
  IN  IF ~v.ok \/ k > Len(st.s) THEN SyntaxError
      ELSE IF st.s[k] = 125 THEN Parsed(JsValue("object", <<>>, <<>>), k + 1)
      ELSE IF st.s[k] = 44 THEN ParseMembers([s |-> st.s, i |-> SkipWs(st.s, k + 1)])
      ELSE SyntaxError

\* a JSON value at index i (which holds no white space)
ParseValue(s, i) ==
  IF i > Len(s) THEN SyntaxError
  ELSE IF s[i] = 34 THEN ParseString([s |-> s, i |-> i + 1, acc |-> <<>>])
  ELSE IF s[i] = 91 THEN
    CHOOSE r \in
      { IF j > Len(s) THEN SyntaxError
        ELSE IF s[j] = 93 THEN Parsed(JsValue("array", <<>>, <<>>), j + 1)
        ELSE ParseItems([s |-> s, i |-> j, acc |-> <<>>]) : j \in {SkipWs(s, i + 1)} } : TRUE
  ELSE IF s[i] = 123 THEN
    LET j == SkipWs(s, i + 1)
    IN  IF j > Len(s) THEN SyntaxError
        ELSE IF s[j] = 125 THEN Parsed(JsValue("object", <<>>, <<>>), j + 1)
        ELSE ParseMembers([s |-> s, i |-> j])
  ELSE IF s[i] = 45 \/ IsDigit(s[i]) THEN ParseNumber(s, i)
  ELSE IF s[i] = 116 THEN ParseLiteral(s, i, <<116, 114, 117, 101>>, "boolean")
  ELSE IF s[i] = 102 THEN ParseLiteral(s, i, <<102, 97, 108, 115, 101>>, "boolean")
  ELSE IF s[i] = 110 THEN ParseLiteral(s, i, <<110, 117, 108, 108>>, "null")
  ELSE SyntaxError

\* a parser that hands the text back as the one element of an array
ParseWhole(text) == Parsed(JsValue("array", <<>>, <<JsString(text)>>), Len(text) + 1)

\* JSON.parse(text): one value with white space around it
JsonParse(text) ==
  CHOOSE r \in
    { CHOOSE q \in
        { IF v.ok /\ SkipWs(text, v.next) = Len(text) + 1 THEN v ELSE SyntaxError :
            v \in {ParseValue(text, first)} } : TRUE
      : first \in {SkipWs(text, 1)} } : TRUE

\* JSON.stringify of one character of a string
QuoteChar(c) ==
  IF c = 34 THEN <<92, 34>>
  ELSE IF c = 92 THEN <<92, 92>>
  ELSE IF c = 8 THEN <<92, 98>>
  ELSE IF c = 12 THEN <<92, 102>>
  ELSE IF c = 10 THEN <<92, 110>>
  ELSE IF c = 13 THEN <<92, 114>>
  ELSE IF c = 9 THEN <<92, 116>>
  ELSE IF c < 32 THEN <<92, 117, 48, 48, HexDigit(c \div 16), HexDigit(c % 16)>>
  ELSE <<c>>

\* JSON.stringify of a string
Quote(s) == <<34>> \o Concat([i \in 1 .. Len(s) |-> QuoteChar(s[i])]) \o <<34>>

\* JSON.stringify of an array of strings
JsonStringify(strs) ==
  <<91>> \o Join([i \in 1 .. Len(strs) |-> Quote(strs[i])], <<44>>) \o <<93>>

(***************************************************************************)
(* The verifier: CaptchaValidator and K9Guard.validate                     *)
(***************************************************************************)

\* CaptchaValidator.MAX_INPUT_LENGTH
MAX_INPUT_LENGTH == 1000

\* the characters VALID_CHAR_REGEX admits: a-z A-Z 0-9 \s - and the Turkish
\* letters, then . , ' ! ?
ValidChars ==
  (97 .. 122) \cup (65 .. 90) \cup (48 .. 57) \cup WhiteSpace
    \cup {45, 231, 199, 287, 286, 305, 304, 246, 214, 351, 350, 252, 220}
    \cup {46, 44, 39, 33, 63}

\* CaptchaValidator.VALID_CHAR_REGEX.test(s)
VALID_CHAR_REGEX(s) == \A i \in 1 .. Len(s) : s[i] \in ValidChars

\* the result of a validate call and the return statement that produced it
Verdict(ok, via) == [ok |-> ok, via |-> via]

\* isValidInput without the upper limit on the length
isValidInputNoLimit(input) ==
  IF input.t /= "string" THEN FALSE
  ELSE IF Len(input.v) = 0 THEN FALSE
  ELSE TRUE

\* CaptchaValidator.isValidInput(input), input a JavaScript value
isValidInput(input) ==
  IF input.t /= "string" THEN FALSE
  ELSE IF Len(input.v) = 0 \/ Len(input.v) > MAX_INPUT_LENGTH THEN FALSE
  ELSE TRUE

\* CaptchaValidator.isNumericChallenge(challenge)
isNumericChallenge(challenge) ==
  challenge.type = "math" \/ challenge.type = "sequence"
    \/ (challenge.type = "mixed" /\ challenge.answer.isNumber)

\* CaptchaValidator.verifyAnswer(challenge, userInput): the digest is
\* createHash of the 'crypto' module
verifyAnswer(challenge, userInput) ==
  LET userHash == NodeSha256Hex(userInput \o challenge.salt)
  IN  userHash = challenge.hashedAnswer

\* CaptchaValidator.validateNumeric(challenge, userInput)
validateNumeric(challenge, userInput) ==
  \E inputNum \in {parseFloat(userInput)} :
    IF isNaN(inputNum) \/ ~isFinite(inputNum) THEN FALSE
    ELSE verifyAnswer(challenge, NumberToString(inputNum))

\* CaptchaValidator.validateText(challenge, userInput)
validateText(challenge, userInput) ==
  \E sanitized \in {Trim(userInput)} :
    IF ~VALID_CHAR_REGEX(sanitized) THEN FALSE
    ELSE verifyAnswer(challenge, sanitized)

\* CaptchaValidator.validateCustom(challenge, userInput)
validateCustom(challenge, userInput) ==
  \E sanitized \in {Trim(userInput)} :
    IF ~VALID_CHAR_REGEX(sanitized) THEN FALSE
    ELSE verifyAnswer(challenge, sanitized)

RECURSIVE CaptchaValidator(_, _)

\* CaptchaValidator.validateMulti(challenge, userInput)
validateMulti(challenge, userInput) ==
  \E parsed \in {JsonParse(userInput)} :
    IF Len(challenge.steps) = 0 THEN FALSE
    ELSE IF ~parsed.ok THEN FALSE
    ELSE IF parsed.val.t /= "array" \/ Len(parsed.val.items) /= Len(challenge.steps)
      THEN FALSE
    ELSE \A i \in 1 .. Len(challenge.steps) :
           /\ parsed.val.items[i].t = "string"
           /\ \E step \in {challenge.steps[i]}, input \in {parsed.val.items[i]} :
                CaptchaValidator(step, input).ok

\* CaptchaValidator.validate(challenge, userInput)
CaptchaValidator(challenge, userInput) ==
  IF ~isValidInput(userInput) THEN Verdict(FALSE, "length")
  ELSE IF challenge.type = "multi" THEN Verdict(validateMulti(challenge, userInput.v), "multi")
  ELSE IF challenge.type = "custom" THEN Verdict(validateCustom(challenge, userInput.v), "custom")
  ELSE IF isNumericChallenge(challenge)
    THEN Verdict(validateNumeric(challenge, userInput.v), "numeric")
  ELSE Verdict(validateText(challenge, userInput.v), "text")

\* typeof of the six properties isValidChallenge looks at, on a record as
\* generate() returns it
WellTyped ==
  [type |-> "string", question |-> "string", nonce |-> "string", expiry |-> "number",
   hashedAnswer |-> "string", salt |-> "string"]

\* a JavaScript value handed to validate() as challenge: t is "object" for a
\* non-null object and else "null", "undefined", "number" or "string"; typeof
\* gives typeof of its properties and c their content
JsChallenge(t, typeof, c) == [t |-> t, typeof |-> typeof, c |-> c]

\* the record c itself, every property in place
JsObject(c) == JsChallenge("object", WellTyped, c)

\* K9Guard.isValidChallenge(challenge)
isValidChallenge(challenge) ==
  IF challenge.t /= "object" THEN FALSE
  ELSE /\ challenge.typeof.type = "string"
       /\ challenge.typeof.question = "string"
       /\ challenge.typeof.nonce = "string"
       /\ challenge.typeof.expiry = "number"
       /\ challenge.typeof.hashedAnswer = "string"
       /\ challenge.typeof.salt = "string"

\* K9Guard.validate without the comparison of the clock with expiry
validateNoExpiry(challenge, userInput, now) ==
  IF ~isValidChallenge(challenge) THEN Verdict(FALSE, "challenge")
  ELSE IF userInput.t /= "string" THEN Verdict(FALSE, "input")
  ELSE CaptchaValidator(challenge.c, userInput)

\* K9Guard.validate without isValidChallenge: reading a property of null or
\* undefined throws a TypeError, and a comparison with an expiry that is not
\* a number is false
validateUnguarded(challenge, userInput, now) ==
  IF userInput.t /= "string" THEN Verdict(FALSE, "input")
  ELSE IF challenge.t \in {"null", "undefined"} THEN Verdict(FALSE, "TypeError")
  ELSE IF challenge.t = "object" /\ challenge.typeof.expiry = "number" /\ now > challenge.c.expiry
    THEN Verdict(FALSE, "expiry")
  ELSE IF challenge.t /= "object" THEN Verdict(FALSE, "text")
  ELSE CaptchaValidator(challenge.c, userInput)

\* K9Guard.validate(challenge, userInput) when the clock reads now
validate(challenge, userInput, now) ==
  IF ~isValidChallenge(challenge) THEN Verdict(FALSE, "challenge")
  ELSE IF userInput.t /= "string" THEN Verdict(FALSE, "input")
  ELSE IF now > challenge.c.expiry THEN Verdict(FALSE, "expiry")
  ELSE CaptchaValidator(challenge.c, userInput)

(***************************************************************************)
(* The program as a state machine: one K9Guard instance and its caller    *)
(***************************************************************************)

VARIABLES
  options,     \* K9Guard.options, the object the generator also holds
  usedNonces,  \* CaptchaGenerator.usedNonces
  now,         \* the clock, Date.now()
  challenge,   \* the record the last successful generate() returned
  call,        \* the last call of generate() or validate() and its outcome; for
               \* generate() reads are the clock values read and draws the number
               \* of buffers drawn from the random source
  issued,      \* the number of generate() calls so far
  nonces,      \* the nonces on the records returned so far, steps included
  verified,    \* the presented forms of challenge for which validate returned true
  expired,     \* the presented forms of challenge that validate rejected for expiry
  built,       \* the argument of new K9Guard(...) and, when it threw, the Error
  probe,       \* inputs handed to the two digests on their own, and the results;
               \* the random draws on their own; the calls of validate() in progress
  peer         \* a second issuer built from the same options argument, if any

vars ==
  <<options, usedNonces, now, challenge, call, issued, nonces, verified, expired, built, probe, peer>>

\* the number of generate() calls in a behaviour of Spec
MaxIssued == 1

\* the number of generate() calls in a behaviour of IssueSpec
MaxSequence == 2

Kinds == {"math", "text", "riddle", "sequence", "scramble", "logic", "reverse", "mixed", "multi"}

Difficulties == {"easy", "medium", "hard"}

Locales == {"en", "tr"}

\* CustomQuestionValidator.MAX_QUESTIONS
MAX_QUESTIONS == 100

\* CustomQuestionValidator.MAX_QUESTION_LENGTH
MAX_QUESTION_LENGTH == 500

\* CustomQuestionValidator.MAX_ANSWER_LENGTH
MAX_ANSWER_LENGTH == 200

\* CustomQuestionValidator.MIN_QUESTION_LENGTH
MIN_QUESTION_LENGTH == 5

\* CustomQuestionValidator.MIN_ANSWER_LENGTH
MIN_ANSWER_LENGTH == 1

\* { valid, error } as the validator returns it.  The message is kept in parts:
\* entry is the number after "Question " that validate() puts in front (0
\* when there is none), error the wording and limit the number the wording
\* includes (0 when it includes none)
Validation(valid, entry, error, limit) ==
  [valid |-> valid, entry |-> entry, error |-> error, limit |-> limit]

\* CustomQuestionValidator.validateSingle(question), for an entry whose
\* question and answer are strings; a difficulty that is not set is ""
validateSingle(q) ==
  IF q.difficulty = "" THEN Validation(FALSE, 0, "Difficulty must be specified", 0)
  ELSE IF q.difficulty \notin {"easy", "medium", "hard"}
    THEN Validation(FALSE, 0, "Difficulty must be one of: easy, medium, hard", 0)
  ELSE IF Len(q.question) < MIN_QUESTION_LENGTH
    THEN Validation(FALSE, 0, "Question must be at least", MIN_QUESTION_LENGTH)
  ELSE IF Len(q.question) > MAX_QUESTION_LENGTH
    THEN Validation(FALSE, 0, "Question must not exceed", MAX_QUESTION_LENGTH)
  ELSE IF Len(q.answer) < MIN_ANSWER_LENGTH
    THEN Validation(FALSE, 0, "Answer cannot be empty", 0)
  ELSE IF Len(q.answer) > MAX_ANSWER_LENGTH
    THEN Validation(FALSE, 0, "Answer must not exceed", MAX_ANSWER_LENGTH)
  ELSE Validation(TRUE, 0, "", 0)

\* CustomQuestionValidator.validate(questions) with the loop index itself put
\* in front of the message, the entries numbered from 0
validateQuestionsFromZero(questions) ==
  LET failing == {i \in 1 .. Len(questions) : ~validateSingle(questions[i]).valid}
  IN  IF Len(questions) = 0
        THEN Validation(FALSE, 0, "At least one question is required", 0)
      ELSE IF Len(questions) > MAX_QUESTIONS
        THEN Validation(FALSE, 0, "Maximum questions allowed", MAX_QUESTIONS)
      ELSE IF failing /= {}
        THEN LET i == CHOOSE k \in failing : \A m \in failing : k <= m
                 singleValidation == validateSingle(questions[i])
             IN  Validation(FALSE, i - 1, singleValidation.error, singleValidation.limit)
      ELSE Validation(TRUE, 0, "", 0)

\* CustomQuestionValidator.validate(questions), questions an array: the loop
\* returns at the first entry validateSingle rejects, numbered from 1
validateQuestions(questions) ==
  LET failing == {i \in 1 .. Len(questions) : ~validateSingle(questions[i]).valid}
  IN  IF Len(questions) = 0
        THEN Validation(FALSE, 0, "At least one question is required", 0)
      ELSE IF Len(questions) > MAX_QUESTIONS
        THEN Validation(FALSE, 0, "Maximum questions allowed", MAX_QUESTIONS)
      ELSE IF failing /= {}
        THEN LET i == CHOOSE k \in failing : \A m \in failing : k <= m
                 singleValidation == validateSingle(questions[i])
             IN  Validation(FALSE, (i - 1) + 1, singleValidation.error, singleValidation.limit)
      ELSE Validation(TRUE, 0, "", 0)

\* CustomQuestionValidator.sanitize(questions)
sanitize(questions) ==
  [i \in 1 .. Len(questions) |->
     [question |-> Trim(questions[i].question), answer |-> Trim(questions[i].answer),
      difficulty |-> questions[i].difficulty]]

\* what a constructor leaves: the Error it threw ("Invalid custom questions: "
\* followed by the validator's message) or the options it kept
Built(threw, validation, opts) == [threw |-> threw, validation |-> validation, options |-> opts]

\* the options of an instance that was never built
NoOptions == [custom |-> FALSE, type |-> "", difficulty |-> "", locale |-> "", questions |-> <<>>]

\* K9Guard.processOptions(options) for an options object; an unset field is ""
processOptions(opt) ==
  IF opt.type = "custom"
  THEN LET validation == validateQuestions(opt.questions)
       IN  IF ~validation.valid THEN Built(TRUE, validation, NoOptions)
           ELSE Built(FALSE, validation,
                      [custom |-> TRUE, type |-> "custom", difficulty |-> "", locale |-> "",
                       questions |-> sanitize(opt.questions)])
  ELSE Built(FALSE, Validation(TRUE, 0, "", 0),
             [custom |-> FALSE,
              type |-> IF opt.type = "" THEN "math" ELSE opt.type,
              difficulty |-> IF opt.difficulty = "" THEN "medium" ELSE opt.difficulty,
              locale |-> IF opt.locale = "" THEN "en" ELSE opt.locale,
              questions |-> <<>>])

\* new K9Guard(options) with a generator that takes the processed options as
\* they are, without a validation of its own
K9GuardTrusting(opt) == processOptions(opt)

\* new K9Guard(options): processOptions, then new CaptchaGenerator, which
\* validates the questions it is handed (the sanitized ones) once more and
\* sanitizes them again
K9Guard(opt) ==
  LET processed == processOptions(opt)
  IN  IF processed.threw THEN processed
      ELSE IF processed.options.custom
        THEN LET validation == validateQuestions(processed.options.questions)
             IN  IF ~validation.valid THEN Built(TRUE, validation, NoOptions)
                 ELSE Built(FALSE, validation,
                            [processed.options EXCEPT
                               !.questions = sanitize(processed.options.questions)])
      ELSE processed

\* a string of n letters
Letter(n) == [i \in 1 .. n |-> 97]

\* an entry the validator accepts
GoodQuestion ==
  [question |-> <<87, 104, 97, 116, 32, 99, 111, 108, 111, 114, 32, 105, 115, 32, 116, 104, 101, 32, 115, 107, 121, 63>>, answer |-> <<98, 108, 117, 101>>, difficulty |-> "easy"]

\* question lists the validator rejects: none, too many, and a first or
\* second entry with a question or answer out of bounds or a difficulty that
\* is unknown or unset
BadLists ==
  { <<>>,
    [i \in 1 .. MAX_QUESTIONS + 1 |-> GoodQuestion],
    <<[GoodQuestion EXCEPT !.question = Letter(MIN_QUESTION_LENGTH - 1)]>>,
    <<GoodQuestion, [GoodQuestion EXCEPT !.question = Letter(MAX_QUESTION_LENGTH + 1)]>>,
    <<[GoodQuestion EXCEPT !.answer = <<>>]>>,
    <<GoodQuestion, [GoodQuestion EXCEPT !.answer = Letter(MAX_ANSWER_LENGTH + 1)], GoodQuestion>>,
    <<[GoodQuestion EXCEPT !.difficulty = "impossible"]>>,
    <<GoodQuestion, [GoodQuestion EXCEPT !.difficulty = ""]>>,
    <<GoodQuestion, [GoodQuestion EXCEPT !.question = <<104, 105>>, !.difficulty = "impossible"],
      [GoodQuestion EXCEPT !.answer = <<>>]>> }

\* question lists whose entries are within the bounds as given: the test's
\* list, one at the bounds, one with white space around its texts and an
\* answer that has characters outside VALID_CHAR_REGEX, and one whose texts
\* are within the bounds only as long as they are not trimmed
PassingLists ==
  { TestQuestions,
    <<[GoodQuestion EXCEPT !.question = Letter(MIN_QUESTION_LENGTH),
                           !.answer = Letter(MAX_ANSWER_LENGTH)],
      [GoodQuestion EXCEPT !.question = Letter(MAX_QUESTION_LENGTH),
                           !.answer = Letter(MIN_ANSWER_LENGTH)]>>,
    <<[GoodQuestion EXCEPT !.question = <<32, 32, 50, 32, 43, 32, 50, 32, 61, 32, 63, 32, 32>>, !.answer = <<32, 52, 32>>],
      [GoodQuestion EXCEPT !.answer = <<99, 43, 43>>]>>,
    <<GoodQuestion, [GoodQuestion EXCEPT !.question = <<32, 32, 104, 105, 32, 32, 32>>]>>,
    <<[GoodQuestion EXCEPT !.answer = <<32>>]>> }

\* options objects with one field that is none of the values of its type in
\* K9GuardOptions: a kind "foo", a difficulty "impossible", a locale "fr"
InvalidOptions ==
  [type : {"foo"}, difficulty : {"", "easy"}, locale : {""}, questions : {<<>>}]
    \cup
  [type : Kinds \cup {""}, difficulty : {"impossible"}, locale : {""}, questions : {<<>>}]
    \cup
  [type : {"", "riddle", "logic", "multi", "mixed"}, difficulty : {"", "easy"}, locale : {"fr"},
   questions : {<<>>}]

\* the options object with every field that is unset, or not a value of its
\* type, set to the default: kind math, difficulty medium, locale en
Defaulted(opt) ==
  [opt EXCEPT !.type = IF opt.type \in Kinds \cup {"custom"} THEN opt.type ELSE "math",
              !.difficulty = IF opt.difficulty \in Difficulties \/ opt.type = "custom"
                               THEN opt.difficulty ELSE "medium",
              !.locale = IF opt.locale \in Locales \/ opt.type = "custom"
                           THEN opt.locale ELSE "en"]

\* the options objects a K9Guard is built with
ConstructorOptions ==
  [type : Kinds \cup {""}, difficulty : Difficulties \cup {""}, locale : Locales \cup {""},
   questions : {<<>>}]
    \cup
  InvalidOptions
    \cup
  [type : {"custom"}, difficulty : {""}, locale : {""}, questions : BadLists \cup PassingLists]

\* what one generate() call meets: tape lists the fill byte of each buffer
\* the random source returns, in order and read cyclically; gap is the time
\* that passes between two readings of the clock
Run(tape, gap) == [tape |-> tape, gap |-> gap]

Runs ==
  { Run(<<7, 12, 3, 200>>, 0), Run(<<1, 77, 0, 34>>, 1), Run(<<100, 50, 1, 9>>, 0),
    Run(<<255, 31, 2, 64>>, 1), Run(<<4, 255, 6, 130>>, 0), Run(<<5, 19, 7, 5>>, 1),
    Run(<<6, 90, 3, 41>>, 0) }

\* no call yet
NoCall ==
  [op |-> "none", status |-> "ok", reads |-> <<>>, draws |-> 0, variant |-> "", tag |-> "",
   length |-> 0, ok |-> FALSE, via |-> "", replay |-> FALSE, bare |-> FALSE, other |-> FALSE,
   asDefault |-> FALSE, onPeer |-> FALSE]

\* the nonces a returned record carries: those of its steps, then its own
NoncesOf(c) == [i \in 1 .. Len(c.steps) |-> c.steps[i].nonce] \o <<c.nonce>>

\* no second issuer
NoPeer == [how |-> "none", shares |-> FALSE, options |-> NoOptions, usedNonces |-> {}]

\* the state new K9Guard(opt) leaves
New(opt) ==
  /\ \E k \in {K9Guard(opt)} :
       /\ options = k.options
       /\ built = [given |-> opt, threw |-> k.threw, validation |-> k.validation]
  /\ usedNonces = {}
  /\ now = 0
  /\ challenge = NoChallenge
  /\ call = NoCall
  /\ issued = 0
  /\ nonces = <<>>
  /\ verified = {}
  /\ expired = {}
  /\ peer = NoPeer

\* nothing handed to the digests, nothing drawn
NoProbe ==
  [op |-> "none", x |-> <<>>, y |-> <<>>, salt |-> <<>>, dx |-> <<>>, dy |-> <<>>,
   issuer |-> <<>>, verifier |-> <<>>, difficulty |-> "", b |-> 0, n |-> 0, threw |-> FALSE,
   word |-> <<>>, tally |-> [k \in Kinds |-> 0], tape |-> <<>>, question |-> <<>>,
   answer |-> StrAnswer(<<>>), heap |-> <<>>, stack |-> <<>>, ret |-> "none", pc |-> "",
   nonce |-> <<>>, draws |-> 0]

Init ==
  /\ \E opt \in ConstructorOptions : New(opt)
  /\ probe = NoProbe

\* K9Guard.generate(), at most limit times: CaptchaGenerator.generate() with
\* the random source and the clock of this call.  call.asDefault records
\* whether an instance newly built from the same options with the defaults in
\* place of unset and invalid fields, meeting the same random source and
\* clock, ends the call the same way with the same record
Generate(limit) ==
  /\ issued < limit
  /\ ~built.threw
  /\ \E run \in Runs :
       \E o \in {generate(options,
                          [tape |-> run.tape, pos |-> 1, used |-> usedNonces, now |-> now,
                           gap |-> run.gap, type |-> options.type, reads |-> <<>>])} :
         \E d \in {IF Defaulted(built.given) = built.given THEN o
                   ELSE generate(K9Guard(Defaulted(built.given)).options,
                                 [tape |-> run.tape, pos |-> 1, used |-> usedNonces,
                                  now |-> now, gap |-> run.gap,
                                  type |-> Defaulted(built.given).type, reads |-> <<>>])} :
           /\ o.status /= "spin"
           /\ options' = [options EXCEPT !.type = o.g.type]
           /\ usedNonces' = o.g.used
           /\ now' = o.g.now
           /\ challenge' = IF o.status = "ok" THEN o.ch ELSE challenge
           /\ call' = [NoCall EXCEPT !.op = "generate", !.status = o.status,
                                     !.reads = o.g.reads, !.draws = o.g.pos - 1,
                                     !.asDefault = (d.status = o.status /\ d.ch = o.ch)]
           /\ issued' = issued + 1
           /\ nonces' = IF o.status = "ok" THEN nonces \o NoncesOf(o.ch) ELSE nonces
           /\ verified' = IF o.status = "ok" THEN {} ELSE verified
           /\ expired' = IF o.status = "ok" THEN {} ELSE expired
  /\ UNCHANGED <<built, probe, peer>>

\* the digest of the 'crypto' module over the record's answer and salt, as an
\* issuer whose createHash is the verifier's would have stored it
Committed(c) ==
  [c EXCEPT !.hashedAnswer = NodeSha256Hex(AnswerToString(c.answer) \o c.salt),
            !.steps = [i \in 1 .. Len(c.steps) |->
                         [c.steps[i] EXCEPT !.hashedAnswer =
                            NodeSha256Hex(AnswerToString(c.steps[i].answer) \o c.steps[i].salt)]]]

\* the value of a field that is not there: typeof gives 'undefined'
Undefined == StrAnswer(<<>>)

\* the record as it arrives after serialising only type, question, nonce,
\* expiry, hashedAnswer, salt and steps: the answer is gone, on the steps too
Stripped(c) ==
  [c EXCEPT !.answer = Undefined,
            !.steps = [i \in 1 .. Len(c.steps) |-> [c.steps[i] EXCEPT !.answer = Undefined]]]

\* the record with its answer replaced by a value of the other type: a
\* number by a string, anything else by a number
Replaced(c) ==
  [c EXCEPT !.answer = IF c.answer.isNumber THEN StrAnswer(<<120>>) ELSE NumAnswer(IntNum(0))]

\* the forms in which the caller hands the record to validate()
Variants == {"issued", "committed"}

Present(c, variant) == IF variant = "committed" THEN Committed(c) ELSE c

\* s followed by spaces up to length n
Pad(s, n) == s \o [i \in 1 .. n - Len(s) |-> 32]

\* the string form of the true answer: answer.toString(), and for a multi
\* record JSON.stringify of the steps' answer.toString()
TrueInput(c) ==
  IF c.type = "multi"
  THEN JsonStringify([i \in 1 .. Len(c.steps) |-> AnswerToString(c.steps[i].answer)])
  ELSE AnswerToString(c.answer)

Wrong == <<119, 114, 111, 110, 103>>

\* the inputs the caller submits for record c, by tag
InputOf(c, tag) ==
  LET a == [i \in 1 .. Len(c.steps) |-> AnswerToString(c.steps[i].answer)]
  IN  IF tag = "answer" THEN TrueInput(c)
      ELSE IF tag = "padded" THEN <<32>> \o TrueInput(c) \o <<32>>
      ELSE IF tag = "suffix" THEN TrueInput(c) \o <<120>>
      ELSE IF tag = "wrong" THEN Wrong
      ELSE IF tag = "empty" THEN <<>>
      ELSE IF tag = "max" THEN Pad(TrueInput(c), MAX_INPUT_LENGTH)
      ELSE IF tag = "over" THEN Pad(TrueInput(c), MAX_INPUT_LENGTH + 1)
      ELSE IF tag = "wrongFirst" THEN JsonStringify(<<Wrong, a[2]>>)
      ELSE IF tag = "wrongSecond" THEN JsonStringify(<<a[1], Wrong>>)
      ELSE IF tag = "short" THEN JsonStringify(<<a[1]>>)
      ELSE IF tag = "long" THEN JsonStringify(<<a[1], a[2], a[2]>>)
      ELSE <<91>> \o a[1] \o <<44>> \o Quote(a[2]) \o <<93>>

\* the tags of the inputs submitted for record c
Tags(c) ==
  {"answer", "padded", "suffix", "wrong", "empty", "max", "over"}
    \cup (IF c.type = "multi"
          THEN {"wrongFirst", "wrongSecond", "short", "long", "number"}
          ELSE {})

\* the inputs submitted while the clock is followed
QuickTags == {"answer", "wrong"}

\* validate() by a verifier that consumes the record it accepts: the nonce
\* of an accepted record is taken out of the issuer's used-nonce set
ValidateConsuming(tags) ==
  /\ challenge /= NoChallenge
  /\ \E variant \in Variants, tag \in Tags(challenge) \cap tags :
       \E c \in {Present(challenge, variant)}, userInput \in {InputOf(challenge, tag)} :
       \E a \in {JsObject(c)}, bare \in {JsObject(Stripped(c))}, other \in {JsObject(Replaced(c))},
          u \in {JsString(userInput)} :
       \E r \in {validate(a, u, now)}, rBare \in {validate(bare, u, now)},
          rOther \in {validate(other, u, now)} :
           /\ call' = [NoCall EXCEPT !.op = "validate", !.variant = variant, !.tag = tag,
                                     !.length = Len(userInput), !.ok = r.ok,
                                     !.via = r.via, !.replay = (variant \in verified),
                                     !.bare = rBare.ok, !.other = rOther.ok]
           /\ verified' = IF r.ok THEN verified \cup {variant} ELSE verified
           /\ expired' = IF r.via = "expiry" THEN expired \cup {variant} ELSE expired
           /\ usedNonces' = IF r.ok THEN usedNonces \ {challenge.nonce} ELSE usedNonces
  /\ UNCHANGED <<options, now, challenge, issued, nonces, built, probe, peer>>

\* K9Guard.validate(challenge, userInput) on a form of the record that the
\* last generate() returned, with an input whose tag is in tags
Validate(tags) ==
  /\ challenge /= NoChallenge
  /\ \E variant \in Variants, tag \in Tags(challenge) \cap tags :
       \E c \in {Present(challenge, variant)}, userInput \in {InputOf(challenge, tag)} :
       \E a \in {JsObject(c)}, bare \in {JsObject(Stripped(c))}, other \in {JsObject(Replaced(c))},
          u \in {JsString(userInput)} :
       \E r \in {validate(a, u, now)}, rBare \in {validate(bare, u, now)},
          rOther \in {validate(other, u, now)} :
           /\ call' = [NoCall EXCEPT !.op = "validate", !.variant = variant, !.tag = tag,
                                     !.length = Len(userInput), !.ok = r.ok,
                                     !.via = r.via, !.replay = (variant \in verified),
                                     !.bare = rBare.ok, !.other = rOther.ok]
           /\ verified' = IF r.ok THEN verified \cup {variant} ELSE verified
           /\ expired' = IF r.via = "expiry" THEN expired \cup {variant} ELSE expired
  /\ UNCHANGED <<options, usedNonces, now, challenge, issued, nonces, built, probe, peer>>

\* the values a caller hands to validate() as challenge that are not a
\* complete record: null, undefined, a number, a string, and the record c
\* with one of the six properties absent or of another type
Malformed(c) ==
  {JsChallenge(t, WellTyped, NoChallenge) : t \in {"null", "undefined", "number", "string"}}
    \cup UNION {{JsChallenge("object", [WellTyped EXCEPT ![f] = ty], c) :
                   ty \in {"undefined", "number", "string", "object"} \ {WellTyped[f]}} :
                 f \in DOMAIN WellTyped}

\* the values a caller hands to validate() as userInput that are not strings
NonStrings ==
  {JsValue("number", <<>>, <<>>), JsValue("null", <<>>, <<>>), JsValue("undefined", <<>>, <<>>),
   JsValue("array", <<>>, <<JsString(<<52>>)>>)}

\* K9Guard.validate(challenge, userInput) where challenge is not a complete
\* record, or userInput is not a string, or both; the record at hand is the
\* one the verifier would accept, steps and all
ValidateMalformed ==
  /\ call.op = "generate"
  /\ \E c \in {Committed(challenge)} :
     \E a \in Malformed(c) \cup {JsObject(c)},
        u \in NonStrings \cup {JsString(TrueInput(challenge))} :
       /\ ~(a = JsObject(c) /\ u.t = "string")
       /\ \E r \in {validate(a, u, now)} :
            call' = [NoCall EXCEPT !.op = "validate",
                                   !.variant = IF a.t = "object" THEN "malformed" ELSE a.t,
                                   !.tag = IF u.t = "string" THEN "answer" ELSE "typeof " \o u.t,
                                   !.length = -1, !.ok = r.ok, !.via = r.via]
  /\ UNCHANGED <<options, usedNonces, now, challenge, issued, nonces, verified, expired, built, probe, peer>>

\* the instants to which the clock advances: the expiry of the record and of
\* its steps, and one millisecond later
Instants(c) ==
  {c.expiry, c.expiry + 1} \cup {c.steps[i].expiry + 1 : i \in 1 .. Len(c.steps)}

\* time passes
Tick ==
  /\ challenge /= NoChallenge
  /\ \E t \in Instants(challenge) :
       /\ t > now
       /\ now' = t
  /\ call' = [NoCall EXCEPT !.op = "wait"]
  /\ UNCHANGED <<options, usedNonces, challenge, issued, nonces, verified, expired, built, probe, peer>>

\* generate() followed immediately by validate() on the record it returned
ValidateAtOnce ==
  /\ call.op = "generate"
  /\ call.status = "ok"
  /\ Validate(Tags(challenge))

\* one instance, each record validated as soon as it is issued
Next == Generate(MaxIssued) \/ ValidateAtOnce \/ ValidateMalformed

Spec == Init /\ [][Next]_vars

\* one instance, its records validated while time passes
ExpiryNext == Generate(MaxIssued) \/ Validate(QuickTags) \/ Tick

ExpirySpec == Init /\ [][ExpiryNext]_vars

\* a sequence of generate() calls on one instance
IssueNext == Generate(MaxSequence)

IssueSpec == Init /\ [][IssueNext]_vars

(***************************************************************************)
(* The digests on their own                                                *)
(***************************************************************************)

\* the longest of the short inputs
MaxLen == 2

\* byte values: zero, one, a letter, the top bit alone and with other bits
ProbeBytes == {0, 1, 97, 128, 225}

\* the byte sequences the digests are handed: every sequence over ProbeBytes
\* of up to MaxLen bytes, and two that reach positions 16 and 32, where
\* i % 32 and (i * 7) % 32 coincide as they do at position 0
Inputs ==
  UNION {[1 .. n -> ProbeBytes] : n \in 0 .. MaxLen}
    \cup {[i \in 1 .. 17 |-> 96 + i], [i \in 1 .. 33 |-> (37 * i) % 256]}

\* the sequences an input is compared with
Others == {x \in Inputs : Len(x) <= 1}

\* salts as generateSalt() returns them
Salts == {generateSalt(7), generateSalt(200)}

\* the instance is new K9Guard(); x, y and the salt are chosen
HashInit ==
  /\ New([type |-> "math", difficulty |-> "medium", locale |-> "", questions |-> <<>>])
  /\ \E x \in Inputs, y \in Others, salt \in Salts :
       probe = [NoProbe EXCEPT !.x = x, !.y = y, !.salt = salt]

\* CryptoHash.digest() after update(x), and after update(y): the 32 bytes
Digest ==
  /\ probe.op = "none"
  /\ \E dx \in {computeHashSync(probe.x)}, dy \in {computeHashSync(probe.y)} :
       probe' = [probe EXCEPT !.op = "digest",
                              !.dx = [j \in 1 .. 32 |-> dx[j - 1]],
                              !.dy = [j \in 1 .. 32 |-> dy[j - 1]]]
  /\ UNCHANGED <<options, usedNonces, now, challenge, call, issued, nonces, verified, expired,
                 built, peer>>

\* the commitment over the string x and the salt as createChallenge stores it
\* and as verifyAnswer recomputes it
Recompute ==
  /\ probe.op = "none"
  /\ \E issuer \in {CryptoHashHex(probe.x \o probe.salt)},
        verifier \in {Sha256Hex(probe.x \o probe.salt)} :
       probe' = [probe EXCEPT !.op = "recompute", !.issuer = issuer, !.verifier = verifier]
  /\ UNCHANGED <<options, usedNonces, now, challenge, call, issued, nonces, verified, expired,
                 built, peer>>

HashNext == Digest \/ Recompute

HashSpec == HashInit /\ [][HashNext]_vars

(***************************************************************************)
(* The random draws on their own                                           *)
(***************************************************************************)

\* a byte as randomBytes returns it
FillBytes == 0 .. 255

\* bytes that fill the randomBytes(4) of an operand: they give 1, the
\* largest value, and among others 23, 41, 51 and 40 at medium
OperandBytes == {0, 51, 113, 128, 199, 204, 255}

\* the bytes of the three draws of generateMath: two operands, the operator
MathTapes == {<<b1, b2, b3>> : b1 \in OperandBytes, b2 \in OperandBytes, b3 \in 0 .. 3}

\* the instance is new K9Guard(); either a difficulty and the byte that fills
\* the next randomBytes(4) are chosen, or a difficulty and the bytes of the
\* draws of generateMath, or the sub-kind draws are counted from byte 0 on
DrawInit ==
  /\ New([type |-> "math", difficulty |-> "medium", locale |-> "", questions |-> <<>>])
  /\ \/ \E d \in Difficulties \cup {""}, b \in FillBytes :
          /\ d = "" => b = 0
          /\ probe = [NoProbe EXCEPT !.difficulty = d, !.b = b]
     \/ \E d \in Difficulties, tape \in MathTapes :
          probe = [NoProbe EXCEPT !.difficulty = d, !.tape = tape]

\* Random.getRandomNumber(difficulty) when randomBytes(4) is filled with b
GetRandomNumber ==
  /\ probe.op = "none"
  /\ probe.difficulty /= ""
  /\ probe.tape = <<>>
  /\ \E n \in {getRandomNumber(probe.difficulty, probe.b)} :
       probe' = [probe EXCEPT !.op = "getRandomNumber", !.n = n]
  /\ UNCHANGED <<options, usedNonces, now, challenge, call, issued, nonces, verified, expired,
                 built, peer>>

\* ScrambleGenerator.generate(difficulty) when every randomBytes(4) is filled
\* with b: the word chosen, or the throw
Scramble ==
  /\ probe.op = "none"
  /\ probe.difficulty /= ""
  /\ probe.tape = <<>>
  /\ \E p \in {ScramblePuzzle(probe.difficulty, <<probe.b>>, 1)} :
       probe' = [probe EXCEPT !.op = "scramble", !.threw = p.threw, !.word = p.answer.str]
  /\ UNCHANGED <<options, usedNonces, now, challenge, call, issued, nonces, verified, expired,
                 built, peer>>

\* the sub-kind generateMixed draws when randomBytes(1) returns b, for the
\* bytes in turn; tally counts the bytes below b that drew each kind
DrawSubKind ==
  /\ probe.op \in {"none", "mixed"}
  /\ probe.difficulty = ""
  /\ probe.b \in FillBytes
  /\ \E randomType \in {MixedSubKind(probe.b)} :
       probe' = [probe EXCEPT !.op = "mixed", !.b = @ + 1, !.tally[randomType] = @ + 1]
  /\ UNCHANGED <<options, usedNonces, now, challenge, call, issued, nonces, verified, expired,
                 built, peer>>

\* the question and the answer of generateMath() at the chosen difficulty
\* when the random source returns the bytes of the tape
Math ==
  /\ probe.op = "none"
  /\ probe.tape /= <<>>
  /\ \E p \in {MathPuzzle(probe.difficulty, probe.tape, 1)} :
       probe' = [probe EXCEPT !.op = "math", !.question = p.question, !.answer = p.answer]
  /\ UNCHANGED <<options, usedNonces, now, challenge, call, issued, nonces, verified, expired,
                 built, peer>>

DrawNext == GetRandomNumber \/ Scramble \/ DrawSubKind \/ Math

DrawSpec == DrawInit /\ [][DrawNext]_vars

(***************************************************************************)
(* Two issuers built from one options object                               *)
(***************************************************************************)

\* the number of generate() calls in a behaviour of PairSpec, on either issuer
MaxPair == 2

\* options objects with every field set
PairOptions == [type : Kinds, difficulty : Difficulties, locale : {"en"}, questions : {<<>>}]

\* the ways the two issuers are built from the object o: "K9Guard" is
\* new K9Guard(o) twice, each with the object its own processOptions(o)
\* returns; "CaptchaGenerator" is new CaptchaGenerator(o) twice, each storing
\* o itself in standardOptions
Builds == {"K9Guard", "CaptchaGenerator"}

PairInit ==
  /\ \E opt \in PairOptions : New(opt)
  /\ probe = NoProbe

\* the second issuer is built from the object the first was built from
BuildPeer ==
  /\ peer.how = "none"
  /\ issued = 0
  /\ \E how \in Builds :
       peer' = [how |-> how, shares |-> (how = "CaptchaGenerator"),
                options |-> IF how = "CaptchaGenerator" THEN NoOptions
                            ELSE processOptions(built.given).options,
                usedNonces |-> {}]
  /\ UNCHANGED <<options, usedNonces, now, challenge, call, issued, nonces, verified, expired,
                 built, probe>>

\* the options object the second issuer holds
PeerOptions == IF peer.shares THEN options ELSE peer.options

\* generate() on the second issuer, while fewer than limit calls were made
GeneratePeer(limit) ==
  /\ issued < limit
  /\ peer.how /= "none"
  /\ \E run \in Runs, held \in {PeerOptions} :
       \E o \in {generate(held,
                          [tape |-> run.tape, pos |-> 1, used |-> peer.usedNonces, now |-> now,
                           gap |-> run.gap, type |-> held.type, reads |-> <<>>])} :
         /\ o.status /= "spin"
         /\ IF peer.shares
              THEN /\ options' = [options EXCEPT !.type = o.g.type]
                   /\ peer' = [peer EXCEPT !.usedNonces = o.g.used]
              ELSE /\ options' = options
                   /\ peer' = [peer EXCEPT !.options.type = o.g.type, !.usedNonces = o.g.used]
         /\ now' = o.g.now
         /\ challenge' = IF o.status = "ok" THEN o.ch ELSE challenge
         /\ call' = [NoCall EXCEPT !.op = "generate", !.status = o.status,
                                   !.reads = o.g.reads, !.draws = o.g.pos - 1,
                                   !.onPeer = TRUE]
         /\ issued' = issued + 1
         /\ verified' = IF o.status = "ok" THEN {} ELSE verified
         /\ expired' = IF o.status = "ok" THEN {} ELSE expired
  /\ UNCHANGED <<usedNonces, nonces, built, probe>>

PairNext == BuildPeer \/ Generate(MaxPair) \/ GeneratePeer(MaxPair)

PairSpec == PairInit /\ [][PairNext]_vars

(***************************************************************************)
(* validate() call by call, on records whose steps are records again       *)
(***************************************************************************)

\* the depth to which the submitted arrays are nested
MaxNest == 4

\* a text record with the answer x, committed with the verifier's digest
LeafRecord ==
  [NoChallenge EXCEPT !.type = "text", !.answer = StrAnswer(<<120>>), !.salt = generateSalt(7),
                      !.hashedAnswer = NodeSha256Hex(<<120>> \o generateSalt(7))]

\* a multi record whose steps are the records at the given places of the heap
MultiRecord(steps) == [NoChallenge EXCEPT !.type = "multi", !.steps = steps]

\* the records the caller hands to validate(), as heaps of three objects of
\* which the first is handed over: a record that is its own step, one that
\* is its own step twice, two records that are each other's step, a record
\* with a step that has a step, and a record with a plain step and itself
Heaps ==
  { <<MultiRecord(<<1>>), LeafRecord, LeafRecord>>,
    <<MultiRecord(<<1, 1>>), LeafRecord, LeafRecord>>,
    <<MultiRecord(<<2>>), MultiRecord(<<1>>), LeafRecord>>,
    <<MultiRecord(<<2>>), MultiRecord(<<3>>), LeafRecord>>,
    <<MultiRecord(<<3, 1>>), LeafRecord, LeafRecord>>,
    <<MultiRecord(<<>>), LeafRecord, LeafRecord>> }

\* JSON.stringify([...]) applied k times, from 'x': one element, the same
\* element twice, and 'x' before the element
RECURSIVE Nested(_, _)
Nested(shape, k) ==
  IF k = 0 THEN <<120>>
  ELSE IF shape = "one" THEN JsonStringify(<<Nested(shape, k - 1)>>)
  ELSE IF shape = "two" THEN JsonStringify(<<Nested(shape, k - 1), Nested(shape, k - 1)>>)
  ELSE JsonStringify(<<<<120>>, Nested(shape, k - 1)>>)

\* the inputs: the nested arrays, an array in an array, a number in an
\* array, an escaped letter, the empty string, and arrays with white space
\* up to and beyond MAX_INPUT_LENGTH
NestedInputs ==
  { Nested(shape, k) : shape \in {"one", "two", "after"}, k \in 0 .. MaxNest }
    \cup { <<91, 91, 34, 120, 34, 93, 93>>, <<91, 53, 93>>,
           <<91, 34, 92, 117, 48, 48, 55, 56, 34, 93>>, <<>>,
           Pad(Nested("one", 2), MAX_INPUT_LENGTH), Pad(Nested("one", 2), MAX_INPUT_LENGTH + 1) }

\* a call of validate(challenge, userInput) in progress: rec is the place of
\* challenge on the heap, i the index of the loop in validateMulti (0 before
\* the loop) and parsed the elements of the parsed array
Frame(rec, input) == [rec |-> rec, input |-> input, i |-> 0, parsed |-> <<>>]

\* the stack without its top frame, and with its top frame replaced
Pop(stack) == SubSeq(stack, 1, Len(stack) - 1)

\* validate(record, input) was called and has not begun
NestedInit ==
  /\ New([type |-> "math", difficulty |-> "medium", locale |-> "", questions |-> <<>>])
  /\ \E heap \in Heaps, input \in NestedInputs :
       probe = [NoProbe EXCEPT !.op = "validate", !.heap = heap,
                               !.stack = <<Frame(1, JsString(input))>>]

\* CaptchaValidator.validate up to the loop of validateMulti
ValidateEnter ==
  /\ probe.stack /= <<>>
  /\ probe.ret = "none"
  /\ \E top \in {probe.stack[Len(probe.stack)]} :
       /\ top.i = 0
       /\ \E record \in {probe.heap[top.rec]} :
            IF ~isValidInput(top.input)
              THEN probe' = [probe EXCEPT !.stack = Pop(probe.stack), !.ret = "false"]
            ELSE IF record.type /= "multi"
              THEN \E v \in {CaptchaValidator(record, top.input)} :
                     probe' = [probe EXCEPT !.stack = Pop(probe.stack),
                                            !.ret = IF v.ok THEN "true" ELSE "false"]
            ELSE \E parsed \in {JsonParse(top.input.v)} :
                   IF \/ Len(record.steps) = 0
                      \/ ~parsed.ok
                      \/ parsed.val.t /= "array"
                      \/ Len(parsed.val.items) /= Len(record.steps)
                     THEN probe' = [probe EXCEPT !.stack = Pop(probe.stack), !.ret = "false"]
                   ELSE probe' = [probe EXCEPT !.stack[Len(probe.stack)].i = 1,
                                               !.stack[Len(probe.stack)].parsed =
                                                  parsed.val.items]
  /\ UNCHANGED <<options, usedNonces, now, challenge, call, issued, nonces, verified, expired,
                 built, peer>>

\* one turn of the loop of validateMulti: the end of the loop, an element
\* that is no string, or the call of validate(step, input)
ValidateStep ==
  /\ probe.stack /= <<>>
  /\ probe.ret = "none"
  /\ \E top \in {probe.stack[Len(probe.stack)]} :
       /\ top.i >= 1
       /\ \E steps \in {probe.heap[top.rec].steps} :
            IF top.i > Len(steps)
              THEN probe' = [probe EXCEPT !.stack = Pop(probe.stack), !.ret = "true"]
            ELSE \E step \in {steps[top.i]}, input \in {top.parsed[top.i]} :
                   IF input.t /= "string"
                     THEN probe' = [probe EXCEPT !.stack = Pop(probe.stack), !.ret = "false"]
                   ELSE probe' = [probe EXCEPT !.stack = Append(probe.stack, Frame(step, input))]
  /\ UNCHANGED <<options, usedNonces, now, challenge, call, issued, nonces, verified, expired,
                 built, peer>>

\* validate(step, input) returns into the loop of validateMulti
ValidateReturn ==
  /\ probe.stack /= <<>>
  /\ probe.ret /= "none"
  /\ IF probe.ret = "false"
       THEN probe' = [probe EXCEPT !.stack = Pop(probe.stack)]
       ELSE probe' = [probe EXCEPT !.stack[Len(probe.stack)].i = @ + 1, !.ret = "none"]
  /\ UNCHANGED <<options, usedNonces, now, challenge, call, issued, nonces, verified, expired,
                 built, peer>>

NestedNext == ValidateEnter \/ ValidateStep \/ ValidateReturn

NestedSpec == NestedInit /\ [][NestedNext]_vars

\* the call runs on: JavaScript runs validate() to its end without a pause
NestedFairSpec == NestedSpec /\ WF_vars(NestedNext)

(***************************************************************************)
(* generate() step by step: the retry of generateMath and the nonce loop   *)
(***************************************************************************)

\* the number of generate() calls in a behaviour of LoopSpec
MaxLoop == 4

\* the draws of the nonce loop are counted modulo DrawCycle
DrawCycle == 3

\* the bytes that fill the buffer of generateNonce(): three nonce values
NonceBytes == {7, 31, 200}

\* the bytes of the draws of generateMath: 1 / 1, 51 / 1 and 26 + 51
LoopTapes == {<<0, 0, 3>>, <<255, 0, 3>>, <<128, 255, 0>>}

\* a nonce loop that never finds its nonce unused
AlwaysCollides(nonce, used) == TRUE

\* the condition of the do-while loop of createChallenge
Collides(nonce, used) == nonce \in used

\* the instance is new K9Guard(); no call is in progress
LoopInit ==
  /\ New([type |-> "math", difficulty |-> "medium", locale |-> "", questions |-> <<>>])
  /\ probe = [NoProbe EXCEPT !.pc = "idle"]

\* generate() is called and enters generateMath()
CallGenerate ==
  /\ probe.pc = "idle"
  /\ issued < MaxLoop
  /\ probe' = [probe EXCEPT !.pc = "math", !.draws = 0, !.nonce = <<>>]
  /\ UNCHANGED <<options, usedNonces, now, challenge, call, issued, nonces, verified, expired,
                 built, peer>>

\* generateMath() up to createChallenge: the draws, the question and the
\* answer; a NaN answer calls generateMath() again
MathStep ==
  /\ probe.pc = "math"
  /\ \E tape \in LoopTapes :
       \E num1 \in {getRandomNumber(getDifficulty(options), tape[1])},
          first2 \in {getRandomNumber(getDifficulty(options), tape[2])},
          operator \in {getRandomOperator(tape[3])} :
         \E num2 \in {IF operator = 47 /\ first2 = 0
                      THEN getRandomNumber(getDifficulty(options), tape[1]) + 1
                      ELSE first2} :
           \E answer \in {calculateMath(num1, operator, num2)} :
             IF isNaN(answer)
               THEN probe' = [probe EXCEPT !.draws = (@ + 1) % DrawCycle]
               ELSE probe' = [probe EXCEPT
                                !.pc = "nonce",
                                !.question = Digits(num1) \o <<32, operator, 32>> \o Digits(num2),
                                !.answer = NumAnswer(answer)]
  /\ UNCHANGED <<options, usedNonces, now, challenge, call, issued, nonces, verified, expired,
                 built, peer>>

\* one turn of the do-while loop of createChallenge when generateNonce()
\* draws a buffer filled with b, and usedNonces.add(nonce) after the loop
NonceStep(b) ==
  /\ probe.pc = "nonce"
  /\ \E nonce \in {generateNonce(b)} :
       IF Collides(nonce, usedNonces)
         THEN /\ probe' = [probe EXCEPT !.nonce = nonce, !.draws = (@ + 1) % DrawCycle]
              /\ UNCHANGED usedNonces
         ELSE /\ probe' = [probe EXCEPT !.nonce = nonce, !.draws = (@ + 1) % DrawCycle,
                                        !.pc = "seal"]
              /\ usedNonces' = usedNonces \cup {nonce}
  /\ UNCHANGED <<options, now, challenge, call, issued, nonces, verified, expired, built, peer>>

\* the rest of createChallenge: expiry, salt, hashedAnswer and the record
\* that generate() returns
Seal ==
  /\ probe.pc = "seal"
  /\ \E salt \in {generateSalt(77)} :
       \E hashedAnswer \in {CryptoHashHex(AnswerToString(probe.answer) \o salt)} :
         challenge' = [type |-> "math", question |-> probe.question, answer |-> probe.answer,
                       nonce |-> probe.nonce, expiry |-> now + TTL,
                       hashedAnswer |-> hashedAnswer, salt |-> salt, steps |-> <<>>]
  /\ probe' = [probe EXCEPT !.pc = "idle"]
  /\ issued' = issued + 1
  /\ UNCHANGED <<options, usedNonces, now, call, nonces, verified, expired, built, peer>>

LoopNext == CallGenerate \/ MathStep \/ (\E b \in NonceBytes : NonceStep(b)) \/ Seal

LoopSpec == LoopInit /\ [][LoopNext]_vars

\* the call runs on without a pause, and the random source is fair: every
\* nonce value it can yield is yielded in the end while the loop keeps drawing
LoopFairSpec ==
  /\ LoopSpec
  /\ WF_vars(MathStep)
  /\ WF_vars(Seal)
  /\ \A b \in NonceBytes : WF_vars(NonceStep(b))

\* the call runs on, and nothing is said about the random source
LoopUnfairSpec == LoopSpec /\ WF_vars(LoopNext)

(***************************************************************************)
(* Properties                                                              *)
(***************************************************************************)

\* the kinds of the round-trip claim
StandardKinds ==
  {"math", "text", "riddle", "sequence", "scramble", "logic", "reverse", "mixed"}

\* the last call was validate() on the record exactly as generate() returned it
ValidatedIssued == call.op = "validate" /\ call.variant = "issued"

\* the last call was generate() and it returned a record
Returned == call.op = "generate" /\ call.status = "ok"

\* C1: round trip: for every standard kind, difficulty and locale, generate()
\* followed immediately by validate(challenge, challenge.answer.toString())
\* returns true.
C1_RoundTrip ==
  (ValidatedIssued /\ call.tag = "answer" /\ challenge.type \in StandardKinds) => call.ok

C3_LengthLimits ==
  call.op = "validate" =>
    /\ (call.length = 0 \/ call.length > 1000) => (~call.ok /\ call.via = "length")
    /\ call.length = 1000 => call.via /= "length"

\* an over-long input that is the true answer followed by spaces was
\* rejected for a record whose digest the verifier would otherwise accept
C3_Witness ==
  /\ call.op = "validate"
  /\ call.variant = "committed"
  /\ call.tag = "over"
  /\ call.length = 1001
  /\ ~call.ok

\* C4: K9Guard.validate returns false whenever the clock is strictly after
\* challenge.expiry, whatever the input; and once a record has been rejected
\* for expiry no later validate of it returns true.
C4_Expiry ==
  call.op = "validate" =>
    /\ now > challenge.expiry => ~call.ok
    /\ call.ok => call.variant \notin expired

\* a record that validate accepted before its expiry was rejected after it,
\* with the true answer
C4_Witness ==
  /\ call.op = "validate"
  /\ call.tag = "answer"
  /\ call.variant = "committed"
  /\ "committed" \in verified
  /\ now > challenge.expiry
  /\ call.via = "expiry"
  /\ ~call.ok

\* C5: after any sequence of generate() calls on one instance, the nonces on
\* the returned records are pairwise distinct, those of a multi record and of
\* its steps included.
C5_DistinctNonces ==
  \A i, j \in 1 .. Len(nonces) : i /= j => nonces[i] /= nonces[j]

\* two multi records have been returned, and in the second call the random
\* source repeated a nonce, which the retry loop passed over (a call without
\* a repeat draws 10 buffers)
C5_Witness ==
  /\ issued = 2
  /\ Len(nonces) = 6
  /\ Returned
  /\ call.draws > 10

\* the record's digest is the issuer's digest of answer.toString() + salt
Sealed(c) == c.hashedAnswer = CryptoHashHex(AnswerToString(c.answer) \o c.salt)

\* C6: every record returned by generate(), a mixed record and each step of a
\* multi record included, has hashedAnswer equal to the issuer's digest of
\* answer.toString() followed by the salt on that same record.
C6_Commitment ==
  challenge /= NoChallenge =>
    /\ Sealed(challenge)
    /\ \A i \in 1 .. Len(challenge.steps) : Sealed(challenge.steps[i])

\* a mixed record, assembled in two passes, has been returned
C6_Witness ==
  /\ Returned
  /\ challenge.type = "mixed"
  /\ Len(call.reads) = 2
  /\ challenge.answer.isNumber

\* C7: every record returned by generate() has expiry equal to the clock
\* value read when it was assembled plus 300000 ms, whatever the options, and
\* each step of a multi record expires no later than the record.
C7_FixedLifetime ==
  Returned =>
    /\ challenge.expiry = call.reads[Len(call.reads)] + 300000
    /\ \A i \in 1 .. Len(challenge.steps) :
         /\ challenge.steps[i].expiry = call.reads[i] + 300000
         /\ challenge.steps[i].expiry <= challenge.expiry

\* a multi record has been returned whose steps were assembled before it, at
\* earlier clock values
C7_Witness ==
  /\ Returned
  /\ challenge.type = "multi"
  /\ Len(call.reads) = 3
  /\ challenge.steps[1].expiry < challenge.steps[2].expiry
  /\ challenge.steps[2].expiry < challenge.expiry

\* C8: multi verification is all-or-nothing: for an issued two-step record,
\* validate with the JSON array of both correct answers returns true; with
\* one wrong answer, an array of another length, an array holding a
\* non-string, or text that is not JSON it returns false.
C8_AllOrNothing ==
  (ValidatedIssued /\ challenge.type = "multi") =>
    /\ call.tag = "answer" => call.ok
    /\ call.tag \in {"wrongFirst", "wrongSecond", "short", "long", "number", "suffix"}
         => ~call.ok

\* C9: a mixed issuer returns records of kind mixed, the verifier compares
\* numerically exactly when the record's answer is a number, and validate
\* with the string form of the true answer returns true.
C9_MixedConsistent ==
  /\ (Returned /\ options.type = "mixed") => challenge.type = "mixed"
  /\ (ValidatedIssued /\ challenge.type = "mixed" /\ call.via \in {"numeric", "text"})
       => (call.via = "numeric" <=> challenge.answer.isNumber)
  /\ (ValidatedIssued /\ challenge.type = "mixed" /\ call.tag = "answer") => call.ok

C11_AnswerNotTrusted ==
  call.op = "validate" => (call.bare = call.ok /\ call.other = call.ok)

\* C12: verification failures are values, not exceptions: validate returns
\* false and does not throw when the challenge is null, not an object, or
\* lacks a correctly typed type, question, nonce, expiry, hashedAnswer or
\* salt, and when the input is not a string, whatever the other properties
\* hold.
C12_FailuresAreValues ==
  (call.op = "validate" /\ (call.variant \in {"malformed", "null", "undefined", "number", "string"}
                               \/ call.tag \in {"typeof number", "typeof null",
                                                 "typeof undefined", "typeof array"}))
    => (~call.ok /\ call.via \in {"challenge", "input"})

\* validate was handed null as challenge together with the true answer of a
\* multi record, and returned false
C12_Witness ==
  /\ call.op = "validate"
  /\ call.variant = "null"
  /\ call.tag = "answer"
  /\ challenge.type = "multi"
  /\ ~call.ok
  /\ call.via = "challenge"

C14_CustomListRejected ==
  built.given.type = "custom" =>
    LET qs == built.given.questions
        Named(q) ==
          (IF Len(q.question) < 5 THEN {<<"Question must be at least", 5>>} ELSE {})
            \cup (IF Len(q.question) > 500 THEN {<<"Question must not exceed", 500>>} ELSE {})
            \cup (IF Len(q.answer) < 1 THEN {<<"Answer cannot be empty", 0>>} ELSE {})
            \cup (IF Len(q.answer) > 200 THEN {<<"Answer must not exceed", 200>>} ELSE {})
            \cup (IF q.difficulty = "" THEN {<<"Difficulty must be specified", 0>>} ELSE {})
            \cup (IF q.difficulty \notin {"", "easy", "medium", "hard"}
                  THEN {<<"Difficulty must be one of: easy, medium, hard", 0>>} ELSE {})
        failing == {i \in 1 .. Len(qs) : Named(qs[i]) /= {}}
    IN  (Len(qs) = 0 \/ Len(qs) > 100 \/ failing /= {}) =>
          /\ built.threw
          /\ issued = 0
          /\ challenge = NoChallenge
          /\ (Len(qs) \in 1 .. 100) =>
                /\ built.validation.entry \in failing
                /\ \A i \in failing : built.validation.entry <= i
                /\ <<built.validation.error, built.validation.limit>>
                      \in Named(qs[built.validation.entry])

\* the constructor threw for a list of three entries whose second and third
\* entries are out of bounds, naming the second
C14_Witness ==
  /\ built.threw
  /\ Len(built.given.questions) = 3
  /\ built.validation.entry = 2
  /\ built.validation.error = "Difficulty must be one of: easy, medium, hard"

\* C15: custom round trip: for every question list the constructor accepts,
\* every record generate() returns carries the question and answer of one
\* configured entry, trimmed, and validate(challenge, challenge.answer)
\* returns true.
C15_CustomRoundTrip ==
  challenge.type = "custom" =>
    /\ \E i \in 1 .. Len(built.given.questions) :
         /\ challenge.question = Trim(built.given.questions[i].question)
         /\ challenge.answer = StrAnswer(Trim(built.given.questions[i].answer))
    /\ (call.op = "validate" /\ call.variant = "issued" /\ call.tag = "answer") => call.ok

C17_ConfigFallback ==
  (/\ call.op = "generate"
   /\ issued = 1
   /\ built.given.type /= "custom"
   /\ Defaulted(built.given) /= built.given) =>
     /\ call.status = "ok"
     /\ challenge.type = Defaulted(built.given).type
     /\ call.asDefault

\* C18: the issuer's digest is collision-free on short byte sequences: two
\* distinct sequences have different digests (and one sequence one digest)
C18_CollisionFree ==
  probe.op = "digest" => (probe.x = probe.y <=> probe.dx = probe.dy)

\* the algorithm as the digest is described: a zero accumulator of 32 bytes;
\* the byte at position i is XORed into cell i mod 32 and
\* (acc[(i * 7) mod 32] + byte) * 31 mod 256 is put into cell (i * 7) mod 32;
\* then 16 rounds in which each cell in turn becomes
\* ((prev + 2 * curr + next) * 7 + round) mod 256.  readFirst tells whether the
\* second cell is read before the first is written or after
Reference(data, readFirst) ==
  LET Byte(acc, i) ==
        LET xored == [acc EXCEPT ![i % 32] = XorBits(acc[i % 32], data[i + 1], 8)]
            read == IF readFirst THEN acc ELSE xored
        IN  [xored EXCEPT ![(i * 7) % 32] = ((read[(i * 7) % 32] + data[i + 1]) * 31) % 256]
      Cell(acc, round, i) ==
        [acc EXCEPT ![i] = ((acc[(i + 31) % 32] + 2 * acc[i] + acc[(i + 1) % 32]) * 7 + round) % 256]
      RECURSIVE Bytes(_, _)
      Bytes(acc, i) ==
        IF i >= Len(data) THEN acc
        ELSE CHOOSE r \in {Bytes(a, i + 1) : a \in {Byte(acc, i)}} : TRUE
      RECURSIVE Cells(_, _, _)
      Cells(acc, round, i) ==
        IF i >= 32 THEN acc
        ELSE CHOOSE r \in {Cells(a, round, i + 1) : a \in {Cell(acc, round, i)}} : TRUE
      RECURSIVE Rounds(_, _)
      Rounds(acc, round) ==
        IF round >= 16 THEN acc
        ELSE CHOOSE r \in {Rounds(a, round + 1) : a \in {Cells(acc, round, 0)}} : TRUE
      acc == Rounds(Bytes([j \in 0 .. 31 |-> 0], 0), 0)
  IN  [j \in 1 .. 32 |-> acc[j - 1]]

\* C19: for every input, the 32 bytes CryptoHash computes are those of the
\* algorithm as described, each step carried out as it is named: the byte is
\* XORed into cell i mod 32, then folded into cell (i * 7) mod 32
C19_MatchesReference ==
  probe.op = "digest" => probe.dx = Reference(probe.x, FALSE)

\* C19 (amended): the 32 bytes CryptoHash computes are those of the algorithm
\* as described with both cells read before either is written, so that where
\* i mod 32 = (i * 7) mod 32 the cell becomes (acc + byte) * 31 mod 256, and
\* with the cells of a diffusion round updated in place in index order
C19_MatchesReferenceReadFirst ==
  probe.op = "digest" => probe.dx = Reference(probe.x, TRUE)

\* the digest of an input that reaches positions 0, 16 and 32 was computed
C19_Witness ==
  /\ probe.op = "digest"
  /\ Len(probe.x) = 33
  /\ probe.dx = Reference(probe.x, TRUE)
  /\ probe.dx /= Reference(probe.x, FALSE)

\* C20: for every string s and salt, the digest verifyAnswer computes for
\* s + salt equals the digest createChallenge computes for s + salt
C20_SameDigest ==
  probe.op = "recompute" => probe.verifier = probe.issuer

(***************************************************************************)
(* Steps of a multi record, answer types, throwing, the configured kind    *)
(***************************************************************************)

\* C21: validate of a multi record returns false when the clock has passed
\* the expiry of one of its steps, even while the record's own expiry has not
\* passed and every submitted answer is right
C21_StepExpiry ==
  (/\ call.op = "validate"
   /\ challenge.type = "multi"
   /\ \E i \in 1 .. Len(challenge.steps) : now > challenge.steps[i].expiry)
    => ~call.ok

\* the records a returned record consists of: its steps and the record itself
RecordsOf(c) == {c.steps[i] : i \in 1 .. Len(c.steps)} \cup {c}

\* C22: every issued record of kind math or sequence, at every difficulty,
\* carries an answer that is a finite number, and parseFloat of the answer's
\* string form is that finite number again
C22_NumericAnswers ==
  (call.op = "generate" /\ call.status = "ok") =>
    \A c \in RecordsOf(challenge) :
      c.type \in {"math", "sequence"} =>
        /\ c.answer.isNumber
        /\ isFinite(c.answer.num)
        /\ parseFloat(AnswerToString(c.answer)) = c.answer.num

\* C23: on an instance built from a valid configuration, whatever the random
\* source returns, generate() does not throw and returns a complete record:
\* kind, question, nonce, salt and digest in place and the fixed lifetime ahead
C23_GenerateReturns ==
  (call.op = "generate" /\ built.given \notin InvalidOptions) =>
    /\ call.status = "ok"
    /\ challenge.type \in Kinds \cup {"custom"}
    /\ challenge.question /= <<>>
    /\ Len(challenge.nonce) = 32
    /\ Len(challenge.salt) = 16
    /\ challenge.hashedAnswer /= <<>>
    /\ challenge.expiry = call.reads[Len(call.reads)] + TTL

\* C24: on an instance configured with mixed, after any sequence of
\* generate() calls, returned or thrown, the configured kind is still mixed
\* and every record returned has kind mixed
C24_KindRestored ==
  (built.given.type = "mixed" /\ built.given \notin InvalidOptions) =>
    /\ options.type = "mixed"
    /\ (call.op = "generate" /\ call.status = "ok") => challenge.type = "mixed"

\* C25: whatever 32-bit value the random source returns, Random.getRandomNumber
\* is in 1..10 for easy, 1..50 for medium and 1..100 for hard, and the word
\* ScrambleGenerator picks has index 0..9 for easy and 0..19 for medium
C25_Ranges ==
  /\ probe.op = "getRandomNumber" =>
       probe.n \in 1 .. (IF probe.difficulty = "easy" THEN 10
                         ELSE IF probe.difficulty = "medium" THEN 50 ELSE 100)
  /\ (probe.op = "scramble" /\ probe.difficulty = "easy") =>
       ~probe.threw /\ \E i \in 0 .. 9 : probe.word = ScrambleWords[i + 1]
  /\ (probe.op = "scramble" /\ probe.difficulty = "medium") =>
       ~probe.threw /\ \E i \in 0 .. 19 : probe.word = ScrambleWords[i + 1]

\* the sub-kind draw has been made for every value of the byte
AllBytesDrawn == probe.op = "mixed" /\ probe.b = 256

\* C26 as stated: each of the seven sub-kinds is drawn by the same number of
\* the 256 values of the byte, and mixed and multi by none
C26_Uniform ==
  AllBytesDrawn =>
    /\ \A j \in 1 .. Len(MixedTypes), k \in 1 .. Len(MixedTypes) :
         probe.tally[MixedTypes[j]] = probe.tally[MixedTypes[k]]
    /\ probe.tally["mixed"] = 0
    /\ probe.tally["multi"] = 0

\* C26 amended: the byte modulo seven draws math, text, riddle and sequence
\* for 37 of the 256 values each and scramble, logic and reverse for 36 each;
\* mixed and multi are never drawn
C26_ModuloSeven ==
  AllBytesDrawn =>
    /\ \A k \in {"math", "text", "riddle", "sequence"} : probe.tally[k] = 37
    /\ \A k \in {"scramble", "logic", "reverse"} : probe.tally[k] = 36
    /\ probe.tally["mixed"] = 0
    /\ probe.tally["multi"] = 0

\* every byte value has been drawn and the seven counts add up to 256
C26_Witness ==
  /\ AllBytesDrawn
  /\ probe.tally["math"] + probe.tally["text"] + probe.tally["riddle"]
       + probe.tally["sequence"] + probe.tally["scramble"] + probe.tally["logic"]
       + probe.tally["reverse"] = 256

\* C27: a math question reads 'a op b' with op one of + - * /, b is not 0
\* when op is /, and the answer is a number, not NaN, equal to a + b, a - b,
\* a * b, or a / b rounded to two decimals
C27_MathAnswers ==
  probe.op = "math" =>
    LET q == probe.question
        first == DigitPrefix(q)
        second == Drop(q, Len(first) + 3)
        a == DigitsValue(first)
        op == q[Len(first) + 2]
        b == DigitsValue(second)
    IN  /\ first /= <<>> /\ second /= <<>> /\ second = DigitPrefix(second)
        /\ Len(q) >= Len(first) + 4
        /\ q[Len(first) + 1] = 32 /\ q[Len(first) + 3] = 32
        /\ op \in {43, 45, 42, 47}
        /\ op = 47 => b /= 0
        /\ probe.answer.isNumber
        /\ ~isNaN(probe.answer.num)
        /\ probe.answer.num =
             (IF op = 43 THEN IntNum(a + b)
              ELSE IF op = 45 THEN IntNum(a - b)
              ELSE IF op = 42 THEN IntNum(a * b)
              ELSE Finite(FALSE, NearestHundredths(a, b), 2))

(***************************************************************************)
(* Two issuers                                                             *)
(***************************************************************************)

\* what an issuer keeps between calls: the used nonces and the configured
\* kind, difficulty and locale
Kept(used, held) ==
  [used |-> used, type |-> held.type, difficulty |-> held.difficulty, locale |-> held.locale]

\* C28: a generate() call on one of two issuers built from the same options
\* object leaves the used-nonce set and the configured kind, difficulty and
\* locale of the other issuer as they were
C28_Independent ==
  [][(peer.how /= "none" /\ issued' = issued + 1) =>
       IF call'.onPeer THEN Kept(usedNonces, options)' = Kept(usedNonces, options)
       ELSE Kept(peer.usedNonces, PeerOptions)' = Kept(peer.usedNonces, PeerOptions)]_vars

(***************************************************************************)
(* Termination                                                             *)
(***************************************************************************)

\* validate() has returned to its caller
ValidateDone == probe.op = "validate" /\ probe.stack = <<>> /\ probe.ret /= "none"

\* a call of validate(step, input) from the loop of validateMulti hands over
\* an input shorter than the one the loop's own call was handed
Descends ==
  Len(probe.stack') > Len(probe.stack) =>
    Len(probe.stack'[Len(probe.stack')].input.v) < Len(probe.stack[Len(probe.stack)].input.v)

\* C29: validate(record, input) returns for every record, records that are
\* steps of themselves or of their steps included, and every input of at
\* most 1000 characters (and beyond): every call of validate from within
\* validateMulti is handed a string shorter than the one it was parsed from
C29_Terminates == [][Descends]_vars /\ <>ValidateDone

\* a record that is its own step was validated four calls deep
C29_Witness ==
  /\ probe.op = "validate"
  /\ Len(probe.stack) = MaxNest
  /\ \A k \in 1 .. MaxNest : probe.stack[k].rec = 1
  /\ Len(probe.stack[1].input.v) <= MAX_INPUT_LENGTH

\* the nonce values the random source can yield that the issuer has not used
Unused == {generateNonce(b) : b \in NonceBytes} \ usedNonces

\* a generate() call is in progress and can find a nonce
CanFinish ==
  \/ probe.pc \in {"math", "nonce"} /\ Unused /= {}
  \/ probe.pc = "seal"

\* the turn of the nonce loop that draws a nonce not in usedNonces is the
\* last, and the nonce is in usedNonces after it
EndsAtOnce ==
  (probe.pc = "nonce" /\ probe' /= probe /\ probe'.nonce \notin usedNonces) =>
    /\ probe'.pc = "seal"
    /\ usedNonces' = usedNonces \cup {probe'.nonce}

\* C30: every generate() call returns: the nonce loop of createChallenge ends
\* with the first nonce drawn that is not in usedNonces, so under a fair
\* random source it ends while there is an unused nonce value; the nonce is
\* then added to usedNonces; and generateMath() does not call itself for ever
C30_Terminates == [][EndsAtOnce]_vars /\ (CanFinish ~> probe.pc = "idle")

\* a call returned whose nonce loop drew a used nonce before it drew its own
C30_Witness ==
  /\ probe.pc = "idle"
  /\ issued >= 2
  /\ probe.draws = 2
  /\ probe.nonce \in usedNonces
  /\ challenge.nonce = probe.nonce

=========================================================================
